----------------------------- MODULE BuyerProofs -----------------------------
(***************************************************************************)
(* The buyer's two pages for every number of tabs, tiers and payments: an  *)
(* order is complete and placed once per visit, and the payment screen     *)
(* never claims a success that did not happen.                             *)
(***************************************************************************)
EXTENDS Booking, PayScreen, SumTheorems, TLAPS

-----------------------------------------------------------------------------
(* The payment screen.                                                      *)

PayStages == Stages \cup {"none"}
Views == [kind : {"view"}, id : Pay, stage : PayStages]
Asked == [kind : {"none", "push", "adopt", "refused"}] \cup Views
           \cup [kind : {"latest"}, id : Pay \cup {0}, stage : PayStages]

PayTyped ==
  /\ paid \in BOOLEAN
  /\ pay \in [Pay -> PayStages]
  /\ at \in [Windows -> {"closed", "checkout", "payment"}]
  /\ key \in [Windows -> BOOLEAN]
  /\ shown \in [Windows -> Pay \cup {0}]
  /\ cache \in [Windows -> [Pay -> PayStages]]
  /\ order \in [Windows -> {"none", "PENDING", "PAID"}]
  /\ ask \in [Windows -> Asked] /\ poll \in [Windows -> {Silent} \cup Views]
  /\ hold \in [Windows -> {"unset", "running", "elapsed", "spent"}]
  /\ late \in [Windows -> BOOLEAN] /\ error \in [Windows -> BOOLEAN]

\* An answer that tells of a success tells of one there has been.
TrueView(a, rows) == a.kind = "view" /\ a.stage = "SUCCESS" => rows[a.id] = "SUCCESS"

\* What a tab has heard, and what is on its way to it.
WindowTrue(t) ==
  /\ \A p \in Pay : cache[t][p] = "SUCCESS" => pay[p] = "SUCCESS"
  /\ TrueView(ask[t], pay) /\ TrueView(poll[t], pay)
  /\ order[t] = "PAID" => paid

PayInv == PayTyped /\ \A t \in Windows : WindowTrue(t)

\* A payment that succeeded stays so, and so does an order that was paid.
SuccessStays == (\A p \in Pay : pay[p] = "SUCCESS" => pay'[p] = "SUCCESS") /\ (paid => paid')

\* A step in which no tab hears of a success that did not happen.
LEMMA PayKeeps ==
  ASSUME PayInv, PayTyped', SuccessStays,
         \A t \in Windows :
           /\ \A p \in Pay : cache'[t][p] = "SUCCESS" => cache[t][p] = "SUCCESS" \/ pay'[p] = "SUCCESS"
           /\ ask'[t] = ask[t] \/ TrueView(ask'[t], pay')
           /\ poll'[t] = poll[t] \/ TrueView(poll'[t], pay')
           /\ order'[t] = "PAID" => order[t] = "PAID" \/ paid'
  PROVE PayInv'
<1>1. ASSUME NEW t \in Windows, NEW a \in Asked, TrueView(a, pay) PROVE TrueView(a, pay')
  BY <1>1 DEF SuccessStays, TrueView, Asked, Views
<1>2. \A t \in Windows : ask[t] \in Asked /\ poll[t] \in Asked
  BY DEF PayInv, PayTyped, Asked, Silent
<1>3. ASSUME NEW t \in Windows PROVE WindowTrue(t)'
  <2>1. WindowTrue(t)
    BY DEF PayInv
  <2>2. TrueView(ask'[t], pay') /\ TrueView(poll'[t], pay')
    BY <1>1, <1>2, <2>1 DEF WindowTrue
  <2>3. \A p \in Pay : cache'[t][p] = "SUCCESS" => pay'[p] = "SUCCESS"
    BY <2>1 DEF WindowTrue, SuccessStays
  <2>4. order'[t] = "PAID" => paid'
    BY <2>1 DEF WindowTrue, SuccessStays
  <2> QED
    BY <2>2, <2>3, <2>4 DEF WindowTrue
<1> QED
  BY <1>3 DEF PayInv

LEMMA SilentTrue == TrueView(Silent, pay) /\ TrueView(Silent, pay') /\ Silent \in Asked
BY DEF TrueView, Silent, Asked

LEMMA LatestIs ==
  ASSUME pay \in [Pay -> PayStages]
  PROVE /\ Latest \in Pay \cup {0}
        /\ Latest # MaxPay => Latest + 1 \in Pay /\ pay[Latest + 1] = "none"
<1>0. MaxPay \in Nat \ {0} /\ Pay = 1..MaxPay /\ Existing \subseteq Pay
  BY PayAssumption DEF Pay, Existing
<1>1. CASE Existing = {}
  <2>1. Latest = 0 /\ 1 \in Pay
    BY <1>0, <1>1 DEF Latest
  <2>2. pay[1] = "none"
    BY <1>1, <2>1 DEF Existing
  <2> QED
    BY <2>1, <2>2
<1>2. CASE Existing # {}
  <2>1. IsFiniteSet(Existing)
    <3>1. IsFiniteSet(1..MaxPay)
      BY <1>0, FS_Interval
    <3> QED
      BY <1>0, <3>1, FS_Subset
  <2>2. \A p \in Existing : p \in Nat
    BY <1>0
  <2>3. \E p \in Existing : \A q \in Existing : q <= p
    BY <1>2, <2>1, <2>2, GreatestOf
  <2>4. Latest \in Existing /\ \A q \in Existing : q <= Latest
    BY <1>2, <2>3 DEF Latest
  <2>5. Latest \in 1..MaxPay
    BY <1>0, <2>4
  <2>6. ASSUME Latest # MaxPay PROVE Latest + 1 \in Pay /\ pay[Latest + 1] = "none"
    <3>1. Latest + 1 \in Pay
      BY <1>0, <2>5, <2>6
    <3>2. Latest + 1 \notin Existing
      BY <2>4, <2>5
    <3> QED
      BY <3>1, <3>2 DEF Existing
  <2> QED
    BY <1>0, <2>5, <2>6
<1> QED
  BY <1>1, <1>2

\* A push request adds a payment or hands one back, and undoes no success.
LEMMA InitiateKeeps ==
  ASSUME PayInv, NEW r \in Initiate
  PROVE /\ r.pay \in [Pay -> PayStages] /\ \A p \in Pay : pay[p] = "SUCCESS" => r.pay[p] = "SUCCESS"
        /\ r.answer \in Asked /\ TrueView(r.answer, r.pay)
<1>1. pay \in [Pay -> PayStages] /\ Existing \subseteq Pay
  BY DEF PayInv, PayTyped, Existing
<1>2. Refused \in Asked /\ \A rows : TrueView(Refused, rows)
  BY DEF Refused, Asked, TrueView
<1>3. CASE r = Row(pay, Refused)
  BY <1>1, <1>2, <1>3 DEF Row
<1>4. ASSUME NEW p \in Existing, r = Row(pay, View(p)) PROVE r.answer \in Asked /\ TrueView(r.answer, r.pay)
  <2>1. pay[p] \in PayStages /\ p \in Pay
    BY <1>1
  <2>2. View(p) \in Asked /\ TrueView(View(p), pay)
    BY <2>1 DEF View, Asked, Views, TrueView
  <2> QED
    BY <1>4, <2>2 DEF Row
<1>5. CASE \E p \in Existing : r = Row(pay, View(p))
  BY <1>1, <1>4, <1>5 DEF Row
<1>6. CASE ~(r = Row(pay, Refused) \/ \E p \in Existing : r = Row(pay, View(p)))
  <2> DEFINE retired == [q \in Pay |-> IF pay[q] \in OpenStages THEN "EXPIRED" ELSE pay[q]]
             sent == [kind |-> "view", id |-> Latest + 1, stage |-> "AWAITING_CUSTOMER"]
  <2>1. /\ Latest # MaxPay
        /\ \/ r = Row([retired EXCEPT ![Latest + 1] = "AWAITING_CUSTOMER"], sent)
           \/ r = Row([retired EXCEPT ![Latest + 1] = "FAILED"], Refused)
    BY <1>6 DEF Initiate
  <2>2. Latest + 1 \in Pay /\ pay[Latest + 1] = "none"
    BY <1>1, <2>1, LatestIs
  <2>3. retired \in [Pay -> PayStages] /\ \A p \in Pay : pay[p] = "SUCCESS" => retired[p] = "SUCCESS"
    BY <1>1 DEF PayStages, Stages, FinalStages, OpenStages
  <2>4. sent \in Asked /\ \A rows : TrueView(sent, rows)
    BY <2>2 DEF Asked, Views, TrueView, PayStages, Stages, OpenStages
  <2> HIDE DEF retired, sent
  <2>5. ASSUME NEW s \in {"AWAITING_CUSTOMER", "FAILED"}
        PROVE /\ [retired EXCEPT ![Latest + 1] = s] \in [Pay -> PayStages]
              /\ \A p \in Pay : pay[p] = "SUCCESS" => [retired EXCEPT ![Latest + 1] = s][p] = "SUCCESS"
    BY <2>2, <2>3 DEF PayStages, Stages, OpenStages, FinalStages
  <2> QED
    BY <1>2, <2>1, <2>4, <2>5 DEF Row
<1> QED
  BY <1>3, <1>5, <1>6

-----------------------------------------------------------------------------
\* The backend moves.
LEMMA BackendMoves ==
  ASSUME PayInv, (\E p \in Pay : PaymentMoves(p)) \/ OrderPaid PROVE PayInv'
<1>1. UNCHANGED <<at, key, cache, order, network, screen>>
  BY DEF PaymentMoves, OrderPaid
<1>2. pay' \in [Pay -> PayStages] /\ paid' \in BOOLEAN /\ SuccessStays
  <2>1. CASE OrderPaid
    BY <2>1 DEF OrderPaid, PayInv, PayTyped, SuccessStays
  <2>2. ASSUME NEW p \in Pay, PaymentMoves(p) PROVE pay' \in [Pay -> PayStages] /\ paid' \in BOOLEAN /\ SuccessStays
    <3>1. PICK s \in MovesTo(pay[p]) : pay' = [pay EXCEPT ![p] = s]
      BY <2>2 DEF PaymentMoves
    <3>2. pay[p] \in PayStages /\ pay \in [Pay -> PayStages]
      BY DEF PayInv, PayTyped
    <3>3. s \in PayStages /\ pay[p] # "SUCCESS"
      BY <3>1, <3>2, PayAssumption DEF MovesTo, PayStages, Stages, FinalStages, OpenStages
    <3> QED
      BY <2>2, <3>1, <3>2, <3>3 DEF PaymentMoves, SuccessStays, PayInv, PayTyped
  <2> QED
    BY <2>1, <2>2
<1>3. PayTyped'
  BY <1>1, <1>2 DEF PayInv, PayTyped, network, screen
<1> QED
  BY <1>1, <1>2, <1>3, PayKeeps DEF network

\* A page is left: what was under way to it is not heard.
LEMMA LeaveKeeps ==
  ASSUME PayInv, NEW t \in Windows, Leave(t), paid' = paid,
         ask' = [ask EXCEPT ![t] = Silent] \/ \E kind \in {"push", "adopt"} : ask' = [ask EXCEPT ![t] = [kind |-> kind]],
         at' \in [Windows -> {"closed", "checkout", "payment"}], key' \in [Windows -> BOOLEAN],
         cache' = cache \/ cache' = [cache EXCEPT ![t] = [p \in Pay |-> "none"]],
         order' \in [Windows -> {"none", "PENDING", "PAID"}],
         \A w \in Windows : order'[w] = "PAID" => order[w] = "PAID" \/ paid
  PROVE PayInv'
<1>1. /\ pay \in [Pay -> PayStages] /\ paid \in BOOLEAN /\ cache \in [Windows -> [Pay -> PayStages]]
      /\ ask \in [Windows -> Asked] /\ poll \in [Windows -> {Silent} \cup Views]
      /\ shown \in [Windows -> Pay \cup {0}] /\ hold \in [Windows -> {"unset", "running", "elapsed", "spent"}]
      /\ late \in [Windows -> BOOLEAN] /\ error \in [Windows -> BOOLEAN]
  BY DEF PayInv, PayTyped
<1>2. pay' \in [Pay -> PayStages] /\ SuccessStays
  <2>1. CASE pay' = pay
    BY <1>1, <2>1 DEF SuccessStays
  <2>2. CASE \E r \in Initiate : pay' = r.pay
    BY <2>2, InitiateKeeps DEF SuccessStays
  <2> QED
    BY <2>1, <2>2 DEF Leave
<1>3. /\ poll' = [poll EXCEPT ![t] = Silent] /\ shown' = [shown EXCEPT ![t] = 0]
      /\ hold' = [hold EXCEPT ![t] = "unset"] /\ late' = [late EXCEPT ![t] = FALSE]
      /\ error' = [error EXCEPT ![t] = FALSE]
  BY DEF Leave
<1>4. PICK a \in Asked : ask' = [ask EXCEPT ![t] = a] /\ TrueView(a, pay')
  <2>1. ASSUME NEW kind \in {"push", "adopt"} PROVE [kind |-> kind] \in Asked /\ TrueView([kind |-> kind], pay')
    BY DEF Asked, TrueView
  <2> QED
    BY <2>1, SilentTrue
<1>5. /\ poll' \in [Windows -> {Silent} \cup Views] /\ ask' \in [Windows -> Asked]
      /\ shown' \in [Windows -> Pay \cup {0}] /\ hold' \in [Windows -> {"unset", "running", "elapsed", "spent"}]
  BY <1>1, <1>3, <1>4
<1>6. late' \in [Windows -> BOOLEAN] /\ error' \in [Windows -> BOOLEAN]
  BY <1>1, <1>3
<1>7. /\ cache' \in [Windows -> [Pay -> PayStages]]
      /\ \A w \in Windows : \A p \in Pay : cache'[w][p] = "SUCCESS" => cache[w][p] = "SUCCESS"
  <2>1. PICK c : c = [p \in Pay |-> "none"]
    OBVIOUS
  <2>2. c \in [Pay -> PayStages] /\ \A p \in Pay : c[p] = "none"
    BY <2>1 DEF PayStages
  <2> QED
    BY <1>1, <2>1, <2>2, ZenonT(40)
<1>8. PayTyped'
  BY <1>1, <1>2, <1>5, <1>6, <1>7 DEF PayTyped
<1>9. ASSUME NEW w \in Windows
      PROVE /\ ask'[w] = ask[w] \/ TrueView(ask'[w], pay')
            /\ poll'[w] = poll[w] \/ TrueView(poll'[w], pay')
  BY <1>1, <1>3, <1>4, SilentTrue
<1> QED
  BY <1>2, <1>7, <1>8, <1>9, PayKeeps

LEMMA LeavingSteps ==
  ASSUME PayInv, NEW t \in Windows,
         \/ OpenCheckout(t) \/ NothingToAdopt(t) \/ HandOver(t)
         \/ StartPayment(t) \/ Refresh(t) \/ Close(t)
  PROVE PayInv'
<1>1. /\ at \in [Windows -> {"closed", "checkout", "payment"}] /\ key \in [Windows -> BOOLEAN]
      /\ order \in [Windows -> {"none", "PENDING", "PAID"}] /\ paid \in BOOLEAN
  BY DEF PayInv, PayTyped
<1>2. CASE OpenCheckout(t) \/ NothingToAdopt(t)
  <2>1. /\ Leave(t) /\ at' = [at EXCEPT ![t] = "checkout"] /\ ask' = [ask EXCEPT ![t] = Silent]
        /\ UNCHANGED <<paid, key, cache, order>>
    BY <1>2 DEF OpenCheckout, NothingToAdopt, ToCheckout
  <2> QED
    BY <1>1, <2>1, LeaveKeeps
<1>3. CASE HandOver(t)
  <2>1. /\ Leave(t) /\ at' = [at EXCEPT ![t] = "checkout"] /\ ask' = [ask EXCEPT ![t] = Silent]
        /\ UNCHANGED <<paid, cache>> /\ key' = [key EXCEPT ![t] = FALSE]
        /\ order' = [order EXCEPT ![t] = IF paid THEN "PAID" ELSE "PENDING"]
    BY <1>3 DEF HandOver, ToCheckout
  <2>2. at' \in [Windows -> {"closed", "checkout", "payment"}] /\ key' \in [Windows -> BOOLEAN]
    BY <1>1, <2>1
  <2>3. /\ order' \in [Windows -> {"none", "PENDING", "PAID"}]
        /\ \A w \in Windows : order'[w] = "PAID" => order[w] = "PAID" \/ paid
    BY <1>1, <2>1
  <2> QED
    BY <2>1, <2>2, <2>3, LeaveKeeps
<1>4. CASE StartPayment(t)
  <2>1. /\ Leave(t) /\ at' = [at EXCEPT ![t] = "payment"] /\ UNCHANGED <<paid, cache, order>>
        /\ key' = key \/ key' = [key EXCEPT ![t] = TRUE]
        /\ ask' = [ask EXCEPT ![t] = [kind |-> IF key'[t] THEN "push" ELSE "adopt"]]
    BY <1>4 DEF StartPayment, Boot
  <2>2. \E kind \in {"push", "adopt"} : ask' = [ask EXCEPT ![t] = [kind |-> kind]]
    BY <2>1
  <2>3. at' \in [Windows -> {"closed", "checkout", "payment"}] /\ key' \in [Windows -> BOOLEAN]
    BY <1>1, <2>1
  <2> QED
    BY <1>1, <2>1, <2>2, <2>3, LeaveKeeps
<1>5. CASE Refresh(t)
  <2>1. /\ Leave(t) /\ at' = [at EXCEPT ![t] = "payment"] /\ UNCHANGED <<paid, key>>
        /\ cache' = [cache EXCEPT ![t] = [p \in Pay |-> "none"]]
        /\ order' = [order EXCEPT ![t] = "none"]
        /\ ask' = [ask EXCEPT ![t] = [kind |-> IF key'[t] THEN "push" ELSE "adopt"]]
    BY <1>5 DEF Refresh, Boot
  <2>2. \E kind \in {"push", "adopt"} : ask' = [ask EXCEPT ![t] = [kind |-> kind]]
    BY <2>1
  <2>3. /\ at' \in [Windows -> {"closed", "checkout", "payment"}]
        /\ order' \in [Windows -> {"none", "PENDING", "PAID"}]
        /\ \A w \in Windows : order'[w] = "PAID" => order[w] = "PAID"
    BY <1>1, <2>1
  <2> QED
    BY <1>1, <2>1, <2>2, <2>3, LeaveKeeps
<1>6. CASE Close(t)
  <2>1. /\ Leave(t) /\ at' = [at EXCEPT ![t] = "closed"] /\ ask' = [ask EXCEPT ![t] = Silent]
        /\ paid' = paid /\ cache' = [cache EXCEPT ![t] = [p \in Pay |-> "none"]]
        /\ order' = [order EXCEPT ![t] = "none"]
        /\ \E kept \in {key[t], FALSE} : key' = [key EXCEPT ![t] = kept]
    BY <1>6 DEF Close
  <2>2. key' \in [Windows -> BOOLEAN]
    BY <1>1, <2>1
  <2>3. /\ at' \in [Windows -> {"closed", "checkout", "payment"}]
        /\ order' \in [Windows -> {"none", "PENDING", "PAID"}]
        /\ \A w \in Windows : order'[w] = "PAID" => order[w] = "PAID"
    BY <1>1, <2>1
  <2> QED
    BY <2>1, <2>2, <2>3, LeaveKeeps
<1> QED
  BY <1>2, <1>3, <1>4, <1>5, <1>6

\* The tab hears of a payment, or its requests go on; the order and the backend stay.
LEMMA TabKeeps ==
  ASSUME PayInv, NEW t \in Windows, UNCHANGED <<paid, at, key, order>>,
         pay' \in [Pay -> PayStages], SuccessStays,
         NEW a \in Asked, ask' = [ask EXCEPT ![t] = a], a = ask[t] \/ TrueView(a, pay'),
         NEW b \in {Silent} \cup Views, poll' = [poll EXCEPT ![t] = b], b = poll[t] \/ TrueView(b, pay'),
         NEW c \in [Pay -> PayStages], cache' = [cache EXCEPT ![t] = c],
         \A p \in Pay : c[p] = "SUCCESS" => cache[t][p] = "SUCCESS" \/ pay'[p] = "SUCCESS",
         NEW n \in Pay \cup {0}, shown' = [shown EXCEPT ![t] = n],
         NEW h \in {"unset", "running", "elapsed", "spent"}, hold' = [hold EXCEPT ![t] = h],
         NEW l \in BOOLEAN, late' = [late EXCEPT ![t] = l],
         NEW e \in BOOLEAN, error' = [error EXCEPT ![t] = e]
  PROVE PayInv'
<1>1. /\ paid \in BOOLEAN /\ cache \in [Windows -> [Pay -> PayStages]]
      /\ ask \in [Windows -> Asked] /\ poll \in [Windows -> {Silent} \cup Views]
      /\ shown \in [Windows -> Pay \cup {0}] /\ hold \in [Windows -> {"unset", "running", "elapsed", "spent"}]
      /\ late \in [Windows -> BOOLEAN] /\ error \in [Windows -> BOOLEAN]
      /\ at \in [Windows -> {"closed", "checkout", "payment"}] /\ key \in [Windows -> BOOLEAN]
      /\ order \in [Windows -> {"none", "PENDING", "PAID"}]
  BY DEF PayInv, PayTyped
<1>2. ask' \in [Windows -> Asked] /\ poll' \in [Windows -> {Silent} \cup Views]
  BY <1>1
<1>3. cache' \in [Windows -> [Pay -> PayStages]] /\ shown' \in [Windows -> Pay \cup {0}]
  BY <1>1
<1>4. /\ hold' \in [Windows -> {"unset", "running", "elapsed", "spent"}]
      /\ late' \in [Windows -> BOOLEAN] /\ error' \in [Windows -> BOOLEAN]
  BY <1>1
<1>5. PayTyped'
  BY <1>1, <1>2, <1>3, <1>4 DEF PayTyped
<1>6. ASSUME NEW w \in Windows
      PROVE /\ \A p \in Pay : cache'[w][p] = "SUCCESS" => cache[w][p] = "SUCCESS" \/ pay'[p] = "SUCCESS"
            /\ ask'[w] = ask[w] \/ TrueView(ask'[w], pay')
            /\ poll'[w] = poll[w] \/ TrueView(poll'[w], pay')
            /\ order'[w] = "PAID" => order[w] = "PAID" \/ paid'
  <2>1. ask'[w] = ask[w] \/ TrueView(ask'[w], pay')
    BY <1>1
  <2>2. poll'[w] = poll[w] \/ TrueView(poll'[w], pay')
    BY <1>1
  <2>3. \A p \in Pay : cache'[w][p] = "SUCCESS" => cache[w][p] = "SUCCESS" \/ pay'[p] = "SUCCESS"
    BY <1>1
  <2> QED
    BY <2>1, <2>2, <2>3
<1> QED
  BY <1>5, <1>6, PayKeeps

LEMMA BackendStays ==
  ASSUME PayInv, UNCHANGED backend PROVE pay' \in [Pay -> PayStages] /\ SuccessStays
BY DEF PayInv, PayTyped, backend, SuccessStays

\* What a tab holds, as the updates of its variables give it back.
LEMMA TabHolds ==
  ASSUME PayInv, NEW t \in Windows
  PROVE /\ ask[t] \in Asked /\ poll[t] \in {Silent} \cup Views /\ cache[t] \in [Pay -> PayStages]
        /\ shown[t] \in Pay \cup {0} /\ hold[t] \in {"unset", "running", "elapsed", "spent"}
        /\ late[t] \in BOOLEAN /\ error[t] \in BOOLEAN
        /\ ask = [ask EXCEPT ![t] = ask[t]] /\ poll = [poll EXCEPT ![t] = poll[t]]
        /\ cache = [cache EXCEPT ![t] = cache[t]] /\ shown = [shown EXCEPT ![t] = shown[t]]
        /\ hold = [hold EXCEPT ![t] = hold[t]] /\ late = [late EXCEPT ![t] = late[t]]
        /\ error = [error EXCEPT ![t] = error[t]]
BY DEF PayInv, PayTyped

LEMMA ServedSteps ==
  ASSUME PayInv, NEW t \in Windows, ServePush(t) \/ ServeAdopt(t) PROVE PayInv'
<1>1. /\ UNCHANGED <<paid, at, key, order>> /\ cache' = cache /\ poll' = poll
      /\ shown' = shown /\ hold' = hold /\ late' = late /\ error' = error
  BY DEF ServePush, ServeAdopt, screen, backend
<1>2. PICK a \in Asked : ask' = [ask EXCEPT ![t] = a] /\ TrueView(a, pay')
        /\ pay' \in [Pay -> PayStages] /\ SuccessStays
  <2>1. CASE ServePush(t)
    <3>1. PICK r \in Initiate : pay' = r.pay /\ ask' = [ask EXCEPT ![t] = r.answer]
      BY <2>1 DEF ServePush
    <3> QED
      BY <1>1, <3>1, InitiateKeeps DEF SuccessStays
  <2>2. CASE ServeAdopt(t)
    <3>1. PICK a : a = [kind |-> "latest", id |-> Latest, stage |-> IF Latest = 0 THEN "none" ELSE pay[Latest]]
      OBVIOUS
    <3>2. pay \in [Pay -> PayStages] /\ UNCHANGED backend
      BY <2>2 DEF PayInv, PayTyped, ServeAdopt
    <3>3. Latest \in Pay \cup {0} /\ (Latest # 0 => pay[Latest] \in PayStages) /\ "none" \in PayStages
      BY <3>2, LatestIs DEF PayStages
    <3>4. a \in Asked /\ TrueView(a, pay')
      BY <3>1, <3>3 DEF Asked, TrueView
    <3> QED
      BY <2>2, <3>1, <3>2, <3>4, BackendStays DEF ServeAdopt
  <2> QED
    BY <2>1, <2>2
<1>3. \A p \in Pay : cache[t][p] = "SUCCESS" => cache[t][p] = "SUCCESS" \/ pay'[p] = "SUCCESS"
  OBVIOUS
<1>4. /\ ask[t] \in Asked /\ poll[t] \in {Silent} \cup Views /\ cache[t] \in [Pay -> PayStages]
      /\ shown[t] \in Pay \cup {0} /\ hold[t] \in {"unset", "running", "elapsed", "spent"}
      /\ late[t] \in BOOLEAN /\ error[t] \in BOOLEAN
      /\ poll' = [poll EXCEPT ![t] = poll[t]] /\ cache' = [cache EXCEPT ![t] = cache[t]]
      /\ shown' = [shown EXCEPT ![t] = shown[t]] /\ hold' = [hold EXCEPT ![t] = hold[t]]
      /\ late' = [late EXCEPT ![t] = late[t]] /\ error' = [error EXCEPT ![t] = error[t]]
  BY <1>1, TabHolds
<1> QED
  BY <1>1, <1>2, <1>3, <1>4, TabKeeps

\* Of a request that was answered, one variable or two change; the rest is what it was.
LEMMA PushAnsweredStep == ASSUME PayInv, NEW t \in Windows, PushAnswered(t) PROVE PayInv'
<1>1. ask[t] \in Views /\ WindowTrue(t)
  BY DEF PayInv, PayTyped, PushAnswered, Asked
<1>2. ask[t].id \in Pay /\ ask[t].stage \in PayStages
  BY <1>1 DEF Views
<1>3. PICK c : c = [cache[t] EXCEPT ![ask[t].id] = ask[t].stage]
  OBVIOUS
<1>4. UNCHANGED backend /\ UNCHANGED <<paid, at, key, order>> /\ poll' = poll /\ late' = late /\ error' = error
  BY DEF PushAnswered, backend
<1>5. c \in [Pay -> PayStages]
      /\ \A p \in Pay : c[p] = "SUCCESS" => cache[t][p] = "SUCCESS" \/ pay'[p] = "SUCCESS"
  BY <1>1, <1>2, <1>3, <1>4, TabHolds DEF WindowTrue, TrueView, PushAnswered, backend
<1>6. cache' = [cache EXCEPT ![t] = c]
  BY <1>3 DEF PushAnswered, Heard, PayInv, PayTyped
<1>7. PICK h \in {"unset", "running", "elapsed", "spent"} : hold' = [hold EXCEPT ![t] = h]
  BY TabHolds DEF PushAnswered
<1>8. ask' = [ask EXCEPT ![t] = Silent] /\ shown' = [shown EXCEPT ![t] = ask[t].id]
  BY DEF PushAnswered
<1>9. /\ Silent \in Asked /\ poll[t] \in {Silent} \cup Views /\ ask[t].id \in Pay \cup {0}
      /\ late[t] \in BOOLEAN /\ error[t] \in BOOLEAN /\ TrueView(Silent, pay')
      /\ poll' = [poll EXCEPT ![t] = poll[t]]
      /\ late' = [late EXCEPT ![t] = late[t]] /\ error' = [error EXCEPT ![t] = error[t]]
      /\ pay' \in [Pay -> PayStages] /\ SuccessStays
  BY <1>2, <1>4, TabHolds, SilentTrue, BackendStays
<1> QED
  BY <1>4, <1>5, <1>6, <1>7, <1>8, <1>9, TabKeeps

LEMMA PollHeardStep == ASSUME PayInv, NEW t \in Windows, PollHeard(t) PROVE PayInv'
<1>1. poll[t] \in Views /\ WindowTrue(t)
  BY DEF PayInv, PayTyped, PollHeard, Silent
<1>2. poll[t].id \in Pay /\ poll[t].stage \in PayStages
  BY <1>1 DEF Views
<1>3. PICK c : c = [cache[t] EXCEPT ![poll[t].id] = poll[t].stage]
  OBVIOUS
<1>4. UNCHANGED backend /\ UNCHANGED <<paid, at, key, order>> /\ ask' = ask /\ shown' = shown
      /\ late' = late /\ error' = error
  BY DEF PollHeard, backend
<1>5. c \in [Pay -> PayStages]
      /\ \A p \in Pay : c[p] = "SUCCESS" => cache[t][p] = "SUCCESS" \/ pay'[p] = "SUCCESS"
  BY <1>1, <1>2, <1>3, <1>4, TabHolds DEF WindowTrue, TrueView, PollHeard, backend
<1>6. cache' = [cache EXCEPT ![t] = c]
  BY <1>3 DEF PollHeard, Heard, PayInv, PayTyped
<1>7. PICK h \in {"unset", "running", "elapsed", "spent"} : hold' = [hold EXCEPT ![t] = h]
  BY TabHolds DEF PollHeard
<1>8. poll' = [poll EXCEPT ![t] = Silent]
  BY DEF PollHeard
<1>9. /\ ask[t] \in Asked /\ Silent \in {Silent} \cup Views /\ shown[t] \in Pay \cup {0}
      /\ late[t] \in BOOLEAN /\ error[t] \in BOOLEAN /\ TrueView(Silent, pay')
      /\ ask' = [ask EXCEPT ![t] = ask[t]] /\ shown' = [shown EXCEPT ![t] = shown[t]]
      /\ late' = [late EXCEPT ![t] = late[t]] /\ error' = [error EXCEPT ![t] = error[t]]
      /\ pay' \in [Pay -> PayStages] /\ SuccessStays
  BY <1>4, TabHolds, SilentTrue, BackendStays
<1> QED
  BY <1>4, <1>5, <1>6, <1>7, <1>8, <1>9, TabKeeps

\* Nothing new is heard of a payment.
LEMMA QuietSteps ==
  ASSUME PayInv, NEW t \in Windows,
         \/ PushFailed(t) \/ Adopted(t) \/ PollServed(t) \/ PollLost(t)
         \/ HoldElapses(t) \/ CeilingReached(t) \/ HandleRetry(t)
  PROVE PayInv'
<1>1. UNCHANGED backend /\ UNCHANGED <<paid, at, key, order>> /\ cache' = cache
  BY DEF PushFailed, Adopted, PollServed, PollLost, HoldElapses, CeilingReached, HandleRetry, backend
<1>2. PICK a \in Asked : ask' = [ask EXCEPT ![t] = a] /\ (a = ask[t] \/ TrueView(a, pay'))
  <2>1. [kind |-> "push"] \in Asked /\ TrueView([kind |-> "push"], pay')
    BY DEF Asked, TrueView
  <2>2. ask' = ask \/ ask' = [ask EXCEPT ![t] = Silent] \/ ask' = [ask EXCEPT ![t] = [kind |-> "push"]]
    BY DEF PushFailed, Adopted, PollServed, PollLost, HoldElapses, CeilingReached, HandleRetry, network
  <2> QED
    BY <2>1, <2>2, TabHolds, SilentTrue
<1>3. PICK b \in {Silent} \cup Views : poll' = [poll EXCEPT ![t] = b] /\ (b = poll[t] \/ TrueView(b, pay'))
  <2>1. CASE PollServed(t)
    <3>1. pay \in [Pay -> PayStages] /\ shown[t] \in Pay
      BY <2>1, TabHolds DEF PayInv, PayTyped, PollServed
    <3>2. View(shown[t]) \in Views /\ TrueView(View(shown[t]), pay')
      BY <1>1, <3>1 DEF View, Views, TrueView, backend
    <3> QED
      BY <2>1, <3>2 DEF PollServed
  <2>2. CASE ~PollServed(t)
    <3>1. poll' = poll \/ poll' = [poll EXCEPT ![t] = Silent]
      BY <2>2 DEF PushFailed, Adopted, PollLost, HoldElapses, CeilingReached, HandleRetry, network
    <3> QED
      BY <3>1, TabHolds, SilentTrue
  <2> QED
    BY <2>1, <2>2
<1>4. PICK n \in Pay \cup {0} : shown' = [shown EXCEPT ![t] = n]
  <2>1. CASE Adopted(t)
    <3>1. ask[t].id \in Pay \cup {0}
      BY <2>1, TabHolds DEF Adopted, Asked, Views
    <3> QED
      BY <2>1, <3>1 DEF Adopted
  <2>2. CASE ~Adopted(t)
    BY <2>2, TabHolds
      DEF PushFailed, PollServed, PollLost, HoldElapses, CeilingReached, HandleRetry, screen
  <2> QED
    BY <2>1, <2>2
<1>5. PICK h \in {"unset", "running", "elapsed", "spent"} : hold' = [hold EXCEPT ![t] = h]
  BY TabHolds DEF PushFailed, Adopted, PollServed, PollLost, HoldElapses, CeilingReached, HandleRetry, screen
<1>6. (\E l \in BOOLEAN : late' = [late EXCEPT ![t] = l]) /\ \E e \in BOOLEAN : error' = [error EXCEPT ![t] = e]
  BY TabHolds DEF PushFailed, Adopted, PollServed, PollLost, HoldElapses, CeilingReached, HandleRetry, screen
<1>7. PICK l \in BOOLEAN, e \in BOOLEAN : late' = [late EXCEPT ![t] = l] /\ error' = [error EXCEPT ![t] = e]
  BY <1>6
<1> QED
  BY <1>1, <1>2, <1>3, <1>4, <1>5, <1>7, TabHolds, TabKeeps, BackendStays

LEMMA LoadOrderStep == ASSUME PayInv, NEW t \in Windows, LoadOrder(t) PROVE PayInv'
<1>1. /\ order' = [order EXCEPT ![t] = IF paid THEN "PAID" ELSE "PENDING"]
      /\ UNCHANGED <<backend, at, key, cache, network, screen>>
  BY DEF LoadOrder
<1>2. order' \in [Windows -> {"none", "PENDING", "PAID"}]
      /\ \A w \in Windows : order'[w] = "PAID" => order[w] = "PAID" \/ paid
  BY <1>1 DEF PayInv, PayTyped
<1>3. PayTyped'
  BY <1>1, <1>2 DEF PayInv, PayTyped, backend, network, screen
<1> QED
  BY <1>1, <1>2, <1>3, PayKeeps, BackendStays DEF backend, network

LEMMA PayInitInv == PayInit => PayInv
<1> SUFFICES ASSUME PayInit PROVE PayInv
  OBVIOUS
<1>1. PayTyped
  BY SilentTrue DEF PayInit, PayTyped, PayStages
<1>2. \A t \in Windows : WindowTrue(t)
  BY DEF PayInit, WindowTrue, TrueView, Silent
<1> QED
  BY <1>1, <1>2 DEF PayInv

LEMMA PayInductive == PaySpec => []PayInv
<1>1. ASSUME PayInv, [PayNext]_pvars PROVE PayInv'
  <2>1. CASE UNCHANGED pvars
    <3>1. UNCHANGED <<paid, pay, at, key, shown, cache, order, ask, poll, hold, late, error>>
      BY <2>1 DEF pvars
    <3> QED
      BY <1>1, <3>1 DEF PayInv, PayTyped, WindowTrue
  <2>2. CASE (\E p \in Pay : PaymentMoves(p)) \/ OrderPaid
    BY <1>1, <2>2, BackendMoves
  <2>3. CASE \E t \in Windows :
               \/ OpenCheckout(t) \/ NothingToAdopt(t) \/ HandOver(t)
               \/ StartPayment(t) \/ Refresh(t) \/ Close(t)
    BY <1>1, <2>3, LeavingSteps
  <2>4. CASE \E t \in Windows :
               \/ PushFailed(t) \/ Adopted(t) \/ PollServed(t) \/ PollLost(t)
               \/ HoldElapses(t) \/ CeilingReached(t) \/ HandleRetry(t)
    BY <1>1, <2>4, QuietSteps
  <2>5. CASE \E t \in Windows :
               ServePush(t) \/ ServeAdopt(t) \/ PushAnswered(t) \/ PollHeard(t) \/ LoadOrder(t)
    BY <1>1, <2>5, ServedSteps, PushAnsweredStep, PollHeardStep, LoadOrderStep
  <2> QED
    BY <1>1, <2>1, <2>2, <2>3, <2>4, <2>5 DEF PayNext, Answered, Heeds
<1> QED
  BY <1>1, PayInitInv, PTL DEF PaySpec

\* Type correctness of what the tabs show, hold and wait for.
THEOREM PayScreenTyped == PaySpec => []PayScreenTypeOK
<1>1. PayInv => PayScreenTypeOK
  BY DEF PayInv, PayTyped, PayScreenTypeOK, Asked, Views, Silent, PayStages
<1> QED
  BY <1>1, PayInductive, PTL

(***************************************************************************)
(* The screen says a payment succeeded, and the confirmation is shown,     *)
(* only when it has and the order is PAID: for any number of tabs and of   *)
(* payments, however old the answers are that a tab hears, whichever are   *)
(* lost, and whatever a reload, a retry or another tab does in between.    *)
(***************************************************************************)
THEOREM SuccessIsReal == PaySpec => []NoFalseSuccess
<1>1. PayInv => NoFalseSuccess
  <2> SUFFICES ASSUME PayInv, NEW t \in Windows
               PROVE /\ Screen(t) = "SUCCESS" => pay[shown[t]] = "SUCCESS"
                     /\ Confirmed(t) => paid
    BY DEF NoFalseSuccess
  <2>1. WindowTrue(t)
    BY DEF PayInv
  <2>2. ASSUME Screen(t) = "SUCCESS" PROVE pay[shown[t]] = "SUCCESS"
    <3>1. ScreenState(t) = "SUCCESS"
      BY <2>2 DEF Screen
    <3>2. \A stage, elapsed : FlowStateFor(stage, elapsed) = "SUCCESS" => stage = "SUCCESS"
      BY DEF FlowStateFor
    <3>3. Status(t) = "SUCCESS"
      BY <3>1, <3>2 DEF ScreenState
    <3> QED
      BY <2>1, <3>3, TabHolds DEF Status, WindowTrue
  <2> QED
    BY <2>1, <2>2 DEF WindowTrue, Confirmed
<1> QED
  BY <1>1, PayInductive, PTL

-----------------------------------------------------------------------------
(* The booking page.                                                        *)

PostAnswers == {"none", "created", "refused", "unauthorised"}
Posts == [event : Sales \cup {NoEvent}, lines : Cart, by : Users \cup {NoUser}, answer : PostAnswers,
          heard : BOOLEAN, here : BOOLEAN, holders : SUBSET Int]

BookTyped == BookingTypeOK /\ post \in [Tabs -> Seq(Posts)]

\* An order, or the request for it, covers one event and names its holders.
Complete(r) ==
  /\ EventsIn(r.lines) = {r.event}
  /\ Total(r.lines) >= 2 => r.holders = 1..Total(r.lines)

\* Of a tab's requests one at most is from the page that is mounted, and none unless
\* that page is waiting for it, which the page an order leads to never is.
TabInv(t) ==
  /\ \A i \in DOMAIN post[t] : Complete(post[t][i])
  /\ \A i, j \in DOMAIN post[t] : post[t][i].here /\ post[t][j].here => i = j
  /\ ~placing[t] => \A i \in DOMAIN post[t] : ~post[t][i].here
  /\ route[t] = "checkout" => ~placing[t]

BookInv ==
  /\ BookTyped
  /\ \A t \in Tabs : TabInv(t)
  /\ \A o \in orders : Complete(o)

LEMMA CartIs ==
  \A lines : lines \in Cart <=> lines \in [Tiers -> Nat] /\ \A k \in Tiers : lines[k] <= MaxQty[k]
<1> DEFINE M == {MaxQty[k] : k \in Tiers}
<1>1. ASSUME NEW k \in Tiers PROVE Max(M) \in Nat /\ MaxQty[k] <= Max(M)
  <2>1. IsFiniteSet(M)
    <3>1. PICK f : f = [j \in Tiers |-> MaxQty[j]]
      OBVIOUS
    <3>2. f \in Surjection(Tiers, M)
      BY <3>1 DEF Surjection
    <3> QED
      BY <3>2, BookingAssumption, FS_Surjection
  <2>2. M # {} /\ \A x \in M : x \in Nat
    BY BookingAssumption
  <2>3. \E x \in M : \A y \in M : y <= x
    BY <2>1, <2>2, GreatestOf
  <2>4. \E x \in M : \A y \in M : x >= y
    BY <2>2, <2>3
  <2>5. Max(M) \in M /\ \A y \in M : Max(M) >= y
    BY <2>4 DEF Max
  <2> QED
    BY <2>2, <2>5
<1>2. \A k \in Tiers : MaxQty[k] \in Nat
  BY BookingAssumption
<1>3. ASSUME NEW lines \in [Tiers -> 0..Max(M)] PROVE lines \in [Tiers -> Nat]
  <2>1. ASSUME NEW k \in Tiers PROVE lines[k] \in Nat
    <3>1. lines[k] \in 0..Max(M)
      OBVIOUS
    <3> QED
      BY <1>1, <3>1
  <2> QED
    BY <2>1
<1>4. ASSUME NEW lines \in [Tiers -> Nat], \A k \in Tiers : lines[k] <= MaxQty[k]
      PROVE lines \in [Tiers -> 0..Max(M)]
  <2>1. ASSUME NEW k \in Tiers PROVE lines[k] \in 0..Max(M)
    BY <1>1, <1>2, <1>4
  <2> QED
    BY <2>1
<1> QED
  BY <1>3, <1>4 DEF Cart

LEMMA EmptyCart == Empty \in Cart /\ SavedCarts \subseteq Cart
BY CartIs, BookingAssumption DEF Empty, SavedCarts

LEMMA EventItemsInCart ==
  ASSUME NEW lines \in Cart, NEW e PROVE EventItems(lines, e) \in Cart
BY CartIs, BookingAssumption DEF EventItems

LEMMA SlotsAreNumbers == \A n : 1..n \subseteq Int
OBVIOUS

\* What a tab is when another page has just been mounted.
LEMMA MountKeeps ==
  ASSUME BookInv, NEW t \in Tabs, NEW p \in {"home", "event", "cart", "login", "checkout"},
         NEW e \in Sales \cup {NoEvent}, NEW inFlight \in Seq(Posts),
         \A i \in DOMAIN inFlight : Complete(inFlight[i]),
         MountAfter(t, p, e, inFlight), orders' = orders,
         cart' \in [Tabs -> Cart], token' \in Users \cup {NoUser}, user' \in [Tabs -> Users \cup {NoUser}]
  PROVE BookInv'
<1>1. /\ route \in [Tabs -> {"home", "event", "cart", "login", "checkout"}]
      /\ event \in [Tabs -> Sales \cup {NoEvent}] /\ step \in [Tabs -> {"tickets", "attendees", "confirm"}]
      /\ placing \in [Tabs -> BOOLEAN] /\ post \in [Tabs -> Seq(Posts)] /\ \A w \in Tabs : named[w] \subseteq Slots
  BY DEF BookInv, BookTyped, BookingTypeOK
<1>2. PICK away : away = [i \in DOMAIN inFlight |-> [inFlight[i] EXCEPT !.here = FALSE]]
  OBVIOUS
<1>3. ASSUME NEW i \in DOMAIN inFlight
      PROVE away[i] \in Posts /\ ~away[i].here /\ Complete(away[i])
  <2>1. inFlight[i] \in Posts /\ away[i] = [inFlight[i] EXCEPT !.here = FALSE]
    BY <1>2
  <2>2. /\ away[i] \in Posts /\ ~away[i].here /\ away[i].lines = inFlight[i].lines
        /\ away[i].event = inFlight[i].event /\ away[i].holders = inFlight[i].holders
    BY <2>1 DEF Posts
  <2> QED
    BY <2>2 DEF Complete
<1>4. DOMAIN away = DOMAIN inFlight /\ away \in Seq(Posts)
  <2>1. DOMAIN inFlight = 1..Len(inFlight) /\ Len(inFlight) \in Nat
    OBVIOUS
  <2>2. away \in [1..Len(inFlight) -> Posts]
    BY <1>2, <1>3, <2>1
  <2> QED
    BY <1>2, <2>1, <2>2
<1>5. /\ event' = [event EXCEPT ![t] = e] /\ post' = [post EXCEPT ![t] = away]
      /\ route' = [route EXCEPT ![t] = p] /\ step' = [step EXCEPT ![t] = "tickets"]
      /\ named' = [named EXCEPT ![t] = {}] /\ placing' = [placing EXCEPT ![t] = FALSE]
  BY <1>2 DEF MountAfter
<1>6. /\ event' \in [Tabs -> Sales \cup {NoEvent}]
      /\ route' \in [Tabs -> {"home", "event", "cart", "login", "checkout"}]
      /\ step' \in [Tabs -> {"tickets", "attendees", "confirm"}]
  BY <1>1, <1>5
<1>7. placing' \in [Tabs -> BOOLEAN] /\ post' \in [Tabs -> Seq(Posts)]
  BY <1>1, <1>4, <1>5
<1>8. \A w \in Tabs : named'[w] \subseteq Slots
  BY <1>1, <1>5
<1>9. BookTyped'
  BY <1>6, <1>7, <1>8 DEF BookTyped, BookingTypeOK
<1>10. ASSUME NEW w \in Tabs PROVE TabInv(w)'
  <2>1. CASE w = t
    BY <1>1, <1>3, <1>4, <1>5, <2>1 DEF TabInv
  <2>2. CASE w # t
    <3>1. /\ post'[w] = post[w] /\ placing'[w] = placing[w] /\ route'[w] = route[w]
      BY <1>1, <1>5, <2>2
    <3>2. TabInv(w)
      BY DEF BookInv
    <3> QED
      BY <3>1, <3>2 DEF TabInv
  <2> QED
    BY <2>1, <2>2
<1> QED
  BY <1>9, <1>10 DEF BookInv

\* A page is opened, or left for another, and the requests of the tab go on.
LEMMA PageSteps ==
  ASSUME BookInv, NEW t \in Tabs,
         \/ \E e \in Sales : OpenEvent(t, e)
         \/ OpenCart(t) \/ ConfirmLogsIn(t) \/ (\E u \in Users : Login(t, u)) \/ Logout(t)
  PROVE BookInv'
<1>1. /\ cart \in [Tabs -> Cart] /\ token \in Users \cup {NoUser} /\ user \in [Tabs -> Users \cup {NoUser}]
      /\ post[t] \in Seq(Posts) /\ \A i \in DOMAIN post[t] : Complete(post[t][i])
  BY DEF BookInv, BookTyped, BookingTypeOK, TabInv
<1>2. PICK p \in {"home", "event", "cart", "login"}, e \in Sales \cup {NoEvent} : MountAfter(t, p, e, post[t])
  <2>1. CASE OpenCart(t)
    BY <2>1 DEF OpenCart, ActiveEvents, Mount
  <2>2. CASE ~OpenCart(t)
    BY <2>2 DEF OpenEvent, ConfirmLogsIn, Login, Logout, Mount
  <2> QED
    BY <2>1, <2>2
<1>3. orders' = orders /\ cart' = cart
  BY DEF OpenEvent, OpenCart, ConfirmLogsIn, Login, Logout
<1>4. token' \in Users \cup {NoUser} /\ user' \in [Tabs -> Users \cup {NoUser}]
  BY <1>1 DEF OpenEvent, OpenCart, ConfirmLogsIn, Login, Logout
<1> QED
  BY <1>1, <1>2, <1>3, <1>4, MountKeeps, ZenonT(60)

\* The tab hears of its order, or is loaded again.
LEMMA HearingSteps ==
  ASSUME BookInv, NEW t \in Tabs, OrderPlaced(t) \/ Reload(t) PROVE BookInv'
<1>1. /\ cart \in [Tabs -> Cart] /\ token \in Users \cup {NoUser} /\ user \in [Tabs -> Users \cup {NoUser}]
      /\ post[t] \in Seq(Posts) /\ \A i \in DOMAIN post[t] : Complete(post[t][i])
  BY DEF BookInv, BookTyped, BookingTypeOK, TabInv
<1>2. CASE OrderPlaced(t)
  <2>1. PICK rest : rest = Tail(post[t])
    OBVIOUS
  <2>2. post[t] # <<>> /\ MountAfter(t, "checkout", NoEvent, rest) /\ cart' = [cart EXCEPT ![t] = Empty]
        /\ UNCHANGED <<token, user, orders>>
    BY <1>2, <2>1 DEF OrderPlaced, KeepCart
  <2>3. rest \in Seq(Posts) /\ \A i \in DOMAIN rest : i + 1 \in DOMAIN post[t] /\ rest[i] = post[t][i + 1]
    BY <1>1, <2>1, <2>2
  <2>4. \A i \in DOMAIN rest : Complete(rest[i])
    BY <1>1, <2>3
  <2>5. cart' \in [Tabs -> Cart]
    BY <1>1, <2>2, EmptyCart
  <2> QED
    BY <1>1, <2>2, <2>3, <2>4, <2>5, MountKeeps
<1>3. CASE Reload(t)
  <2>1. PICK deaf : deaf = [i \in DOMAIN post[t] |-> [post[t][i] EXCEPT !.heard = FALSE]]
    OBVIOUS
  <2>2. PICK p \in {"login", "home"} : MountAfter(t, p, NoEvent, deaf)
    BY <1>3, <2>1 DEF Reload
  <2>3. ASSUME NEW i \in DOMAIN post[t] PROVE deaf[i] \in Posts /\ Complete(deaf[i])
    <3>1. post[t][i] \in Posts /\ deaf[i] = [post[t][i] EXCEPT !.heard = FALSE]
      BY <1>1, <2>1
    <3>2. /\ deaf[i] \in Posts /\ deaf[i].lines = post[t][i].lines
          /\ deaf[i].event = post[t][i].event /\ deaf[i].holders = post[t][i].holders
      BY <3>1 DEF Posts
    <3> QED
      BY <1>1, <3>2 DEF Complete
  <2>4. DOMAIN deaf = DOMAIN post[t] /\ deaf \in Seq(Posts)
    <3>1. DOMAIN post[t] = 1..Len(post[t]) /\ Len(post[t]) \in Nat
      BY <1>1
    <3>2. deaf \in [1..Len(post[t]) -> Posts]
      BY <2>1, <2>3, <3>1
    <3> QED
      BY <2>1, <3>1, <3>2
  <2>5. cart' \in [Tabs -> Cart] /\ user' \in [Tabs -> Users \cup {NoUser}] /\ UNCHANGED <<token, orders>>
    BY <1>1, <1>3, EmptyCart DEF Reload
  <2> QED
    BY <1>1, <2>2, <2>3, <2>4, <2>5, MountKeeps, ZenonT(60)
<1> QED
  BY <1>2, <1>3

\* The form or the cart changes; the requests and the pages do not.
LEMMA FormSteps ==
  ASSUME BookInv, UNCHANGED <<route, event, placing, post, orders>>,
         cart' \in [Tabs -> Cart], token' \in Users \cup {NoUser}, user' = user,
         step' \in [Tabs -> {"tickets", "attendees", "confirm"}], \A t \in Tabs : named'[t] \subseteq Slots
  PROVE BookInv'
<1>1. BookTyped'
  BY DEF BookInv, BookTyped, BookingTypeOK
<1>2. \A t \in Tabs : TabInv(t)'
  BY DEF BookInv, TabInv
<1> QED
  BY <1>1, <1>2 DEF BookInv

LEMMA CartSteps ==
  ASSUME BookInv, NEW t \in Tabs, NEW k \in Tiers, AddTier(t, k) \/ SetQuantity(t, k)
  PROVE BookInv'
<1>1. /\ cart \in [Tabs -> Cart] /\ token \in Users \cup {NoUser}
      /\ step \in [Tabs -> {"tickets", "attendees", "confirm"}] /\ \A w \in Tabs : named[w] \subseteq Slots
  BY DEF BookInv, BookTyped, BookingTypeOK
<1>2. /\ cart[t] \in [Tiers -> Nat] /\ MaxQty[k] \in Nat
      /\ \A j \in Tiers : cart[t][j] <= MaxQty[j] /\ MaxQty[j] \in Nat
  BY <1>1, CartIs, BookingAssumption
<1>3. UNCHANGED <<route, event, placing, post, orders, token, user, step, named>>
  BY DEF AddTier, SetQuantity, form
<1>4. PICK lines \in Cart : cart' = [cart EXCEPT ![t] = lines]
  <2>1. CASE AddTier(t, k)
    <3>1. PICK q \in 1..MaxQty[k] :
            /\ EventsIn(cart[t]) \subseteq {event[t]} => cart[t][k] + q <= MaxQty[k]
            /\ KeepCart(t, AddToCart(cart[t], k, q))
      BY <2>1 DEF AddTier
    <3>2. TierEvent[k] = event[t] /\ q \in Nat /\ q <= MaxQty[k]
      BY <1>2, <2>1, <3>1 DEF AddTier, TierListed
    <3>3. AddToCart(cart[t], k, q) \in Cart
      <4>1. CASE EventsIn(cart[t]) \subseteq {TierEvent[k]}
        <5>1. [cart[t] EXCEPT ![k] = @ + q] \in Cart
          BY <1>2, <3>1, <3>2, <4>1, CartIs
        <5> QED
          BY <4>1, <5>1 DEF AddToCart
      <4>2. CASE ~(EventsIn(cart[t]) \subseteq {TierEvent[k]})
        <5>1. [Empty EXCEPT ![k] = q] \in Cart
          BY <1>2, <3>2, CartIs DEF Empty
        <5> QED
          BY <4>2, <5>1 DEF AddToCart
      <4> QED
        BY <4>1, <4>2
    <3> QED
      BY <3>1, <3>3 DEF KeepCart
  <2>2. CASE SetQuantity(t, k)
    <3>1. PICK q \in Picker(t, k) : KeepCart(t, [Selected(t) EXCEPT ![k] = q])
      BY <2>2 DEF SetQuantity
    <3>2. q \in Nat /\ q <= MaxQty[k]
      BY <1>2 DEF Picker
    <3>3. Selected(t) \in Cart
      BY <1>1, EventItemsInCart DEF Selected
    <3>4. [Selected(t) EXCEPT ![k] = q] \in Cart
      BY <3>2, <3>3, CartIs
    <3> QED
      BY <3>1, <3>4 DEF KeepCart
  <2> QED
    BY <2>1, <2>2
<1> QED
  BY <1>1, <1>3, <1>4, FormSteps

LEMMA StepSteps ==
  ASSUME BookInv, NEW t \in Tabs,
         \/ GoToNextFromTickets(t) \/ ContinueToNumber(t) \/ Back(t)
         \/ \E i \in Slots : UpdateAttendee(t, i)
  PROVE BookInv'
<1>1. /\ cart \in [Tabs -> Cart] /\ token \in Users \cup {NoUser}
      /\ step \in [Tabs -> {"tickets", "attendees", "confirm"}] /\ \A w \in Tabs : named[w] \subseteq Slots
  BY DEF BookInv, BookTyped, BookingTypeOK
<1>2. UNCHANGED <<route, event, placing, post, orders, token, user, cart>>
  BY DEF GoToNextFromTickets, ContinueToNumber, Back, UpdateAttendee
<1>3. step' \in [Tabs -> {"tickets", "attendees", "confirm"}]
  BY <1>1 DEF GoToNextFromTickets, ContinueToNumber, Back, UpdateAttendee
<1>4. ASSUME NEW w \in Tabs PROVE named'[w] \subseteq Slots
  <2>1. CASE named' = named
    BY <1>1, <2>1
  <2>2. ASSUME NEW i \in Slots, UpdateAttendee(t, i) PROVE named'[w] \subseteq Slots
    <3>1. PICK kept \in {named[t] \cup {i}, named[t] \ {i}} :
            named' = [named EXCEPT ![t] = kept \cap TicketSlots(t)]
      BY <2>2 DEF UpdateAttendee
    <3>2. kept \subseteq Slots
      BY <1>1, <2>2, <3>1
    <3>3. named'[w] = named[w] \/ named'[w] = kept \cap TicketSlots(t)
      BY <3>1
    <3> QED
      BY <1>1, <3>2, <3>3
  <2> QED
    BY <2>1, <2>2 DEF GoToNextFromTickets, ContinueToNumber, Back
<1> QED
  BY <1>1, <1>2, <1>3, <1>4, FormSteps

-----------------------------------------------------------------------------
\* The requests of a tab change, and nothing of its pages but the wait for them.
LEMMA PostsKeep ==
  ASSUME BookInv, NEW t \in Tabs, NEW s \in Seq(Posts), post' = [post EXCEPT ![t] = s],
         NEW b \in BOOLEAN, placing' = [placing EXCEPT ![t] = b],
         UNCHANGED <<cart, user, route, event, step, named>>, token' \in Users \cup {NoUser},
         \A i \in DOMAIN s : Complete(s[i]),
         \A i, j \in DOMAIN s : s[i].here /\ s[j].here => i = j,
         ~b => \A i \in DOMAIN s : ~s[i].here,
         route[t] = "checkout" => ~b,
         \A o \in orders' : Complete(o)
  PROVE BookInv'
<1>1. placing \in [Tabs -> BOOLEAN] /\ post \in [Tabs -> Seq(Posts)]
  BY DEF BookInv, BookTyped, BookingTypeOK
<1>2. placing' \in [Tabs -> BOOLEAN] /\ post' \in [Tabs -> Seq(Posts)]
  BY <1>1
<1>3. BookTyped'
  BY <1>2 DEF BookInv, BookTyped, BookingTypeOK
<1>4. ASSUME NEW w \in Tabs PROVE TabInv(w)'
  <2>1. CASE w = t
    BY <1>1, <2>1 DEF TabInv
  <2>2. CASE w # t
    <3>1. TabInv(w) /\ post'[w] = post[w] /\ placing'[w] = placing[w] /\ route'[w] = route[w]
      BY <1>1, <2>2 DEF BookInv
    <3> QED
      BY <3>1 DEF TabInv
  <2> QED
    BY <2>1, <2>2
<1> QED
  BY <1>3, <1>4 DEF BookInv

\* The request carries one event's lines and, for two tickets or more, every holder.
LEMMA HandleConfirmNumberStep ==
  ASSUME BookInv, NEW t \in Tabs, HandleConfirmNumber(t) PROVE BookInv'
<1>1. /\ cart \in [Tabs -> Cart] /\ token \in Users \cup {NoUser} /\ event[t] \in Sales \cup {NoEvent}
      /\ post \in [Tabs -> Seq(Posts)] /\ placing \in [Tabs -> BOOLEAN] /\ named[t] \subseteq Slots
  BY DEF BookInv, BookTyped, BookingTypeOK
<1>2. /\ ~placing[t] /\ route[t] = "cart" /\ Selected(t) # Empty
      /\ NeedsAttendees(t) => TicketSlots(t) \subseteq named[t]
  BY DEF HandleConfirmNumber, HandleConfirmNumberAgain, ConfirmView, AtStep, ValidateAttendees
<1>3. PICK holders : holders = IF NeedsAttendees(t) THEN named[t] \cap TicketSlots(t) ELSE {}
  OBVIOUS
<1>4. PICK lines : lines = Selected(t)
  OBVIOUS
<1>5. PICK r : r = [event |-> event[t], lines |-> lines, by |-> token, answer |-> "none", heard |-> TRUE,
                    here |-> TRUE, holders |-> holders]
  OBVIOUS
<1>6. lines \in Cart /\ holders \subseteq Int
  BY <1>1, <1>3, <1>4, EventItemsInCart, SlotsAreNumbers DEF Selected, TicketSlots
<1>7. r \in Posts /\ r.here /\ r.lines = lines /\ r.event = event[t] /\ r.holders = holders
  BY <1>1, <1>5, <1>6 DEF Posts, PostAnswers
<1>8. EventsIn(lines) = {event[t]}
  <2>1. lines = [k \in Tiers |-> IF TierEvent[k] = event[t] THEN cart[t][k] ELSE 0]
    BY <1>4 DEF Selected, EventItems
  <2>2. \A k \in Tiers : lines[k] > 0 => TierEvent[k] = event[t]
    BY <2>1
  <2>3. lines \in [Tiers -> Nat] /\ lines # Empty
    BY <1>2, <1>4, <1>6, CartIs
  <2>4. PICK k \in Tiers : lines[k] # 0
    BY <2>3 DEF Empty
  <2>5. lines[k] > 0
    BY <2>3, <2>4
  <2> QED
    BY <2>2, <2>5 DEF EventsIn
<1>9. Total(lines) >= 2 => holders = 1..Total(lines)
  BY <1>2, <1>3, <1>4 DEF NeedsAttendees, TicketSlots
<1>10. Complete(r)
  BY <1>7, <1>8, <1>9 DEF Complete
<1>11. /\ placing' = [placing EXCEPT ![t] = TRUE] /\ post' = [post EXCEPT ![t] = Append(@, r)]
       /\ UNCHANGED <<token, cart, user, route, event, step, named, orders>>
  BY <1>3, <1>4, <1>5 DEF HandleConfirmNumber, HandleConfirmNumberAgain
<1>12. PICK s : s = Append(post[t], r)
  OBVIOUS
<1>13. s \in Seq(Posts) /\ post' = [post EXCEPT ![t] = s]
  BY <1>1, <1>7, <1>11, <1>12
<1>14. \A i \in DOMAIN s : (i \in DOMAIN post[t] /\ s[i] = post[t][i]) \/ (i = Len(post[t]) + 1 /\ s[i] = r)
  BY <1>1, <1>7, <1>12
<1>15. TabInv(t)
  BY DEF BookInv
<1>16. \A i \in DOMAIN s : Complete(s[i]) /\ (s[i].here => i = Len(post[t]) + 1)
  BY <1>2, <1>10, <1>14, <1>15 DEF TabInv
<1>17. \A o \in orders' : Complete(o)
  BY <1>11 DEF BookInv
<1> QED
  BY <1>1, <1>2, <1>11, <1>13, <1>16, <1>17, PostsKeep

\* A refusal, or the loss of the connection: the oldest request is over.
LEMMA RefusedSteps ==
  ASSUME BookInv, NEW t \in Tabs, OrderRefused(t) \/ PostLost(t) PROVE BookInv'
<1>1. /\ token \in Users \cup {NoUser} /\ post \in [Tabs -> Seq(Posts)] /\ placing \in [Tabs -> BOOLEAN]
      /\ TabInv(t)
  BY DEF BookInv, BookTyped, BookingTypeOK
<1>2. PICK b \in BOOLEAN : b = (placing[t] /\ ~Head(post[t]).here)
  OBVIOUS
<1>3. PICK s : s = Tail(post[t])
  OBVIOUS
<1>4. /\ post[t] # <<>> /\ post' = [post EXCEPT ![t] = s] /\ placing' = [placing EXCEPT ![t] = b]
      /\ UNCHANGED <<cart, user, route, event, step, named, orders>>
  BY <1>1, <1>2, <1>3 DEF OrderRefused, PostLost
<1>5. token' \in Users \cup {NoUser}
  BY <1>1 DEF OrderRefused, PostLost
<1>6. /\ s \in Seq(Posts) /\ Head(post[t]) = post[t][1] /\ 1 \in DOMAIN post[t]
      /\ \A i \in DOMAIN s : i \in Nat /\ i + 1 \in DOMAIN post[t] /\ i + 1 # 1 /\ s[i] = post[t][i + 1]
  BY <1>1, <1>3, <1>4
<1>7. /\ \A i \in DOMAIN s : Complete(s[i])
      /\ \A i, j \in DOMAIN s : s[i].here /\ s[j].here => i = j
  BY <1>1, <1>6 DEF TabInv
<1>8. ~b => \A i \in DOMAIN s : ~s[i].here
  BY <1>1, <1>2, <1>6 DEF TabInv
<1>9. route[t] = "checkout" => ~b
  BY <1>1, <1>2 DEF TabInv
<1>10. \A o \in orders' : Complete(o)
  BY <1>4 DEF BookInv
<1> QED
  BY <1>2, <1>4, <1>5, <1>6, <1>7, <1>8, <1>9, <1>10, PostsKeep

\* The endpoint answers a request, which changes in nothing else; an order is what it asked for.
LEMMA CreateOrderStep ==
  ASSUME BookInv, NEW t \in Tabs, CreateOrder(t) PROVE BookInv'
<1>1. /\ token \in Users \cup {NoUser} /\ post \in [Tabs -> Seq(Posts)] /\ placing \in [Tabs -> BOOLEAN]
      /\ TabInv(t)
  BY DEF BookInv, BookTyped, BookingTypeOK
<1>2. PICK n \in DOMAIN post[t] : Served(t, n)
  BY DEF CreateOrder
<1>3. PICK a \in PostAnswers : post' = [post EXCEPT ![t][n].answer = a]
  BY <1>2 DEF Served, PostAnswered, PostAnswers
<1>4. PICK r : r = [post[t][n] EXCEPT !.answer = a]
  OBVIOUS
<1>5. post[t] \in Seq(Posts) /\ post[t][n] \in Posts
  BY <1>1, <1>2
<1>6. /\ r \in Posts /\ r.lines = post[t][n].lines /\ r.event = post[t][n].event
      /\ r.holders = post[t][n].holders /\ r.here = post[t][n].here
  BY <1>4, <1>5 DEF Posts
<1>7. PICK s : s = [post[t] EXCEPT ![n] = r]
  OBVIOUS
<1>8. s \in Seq(Posts) /\ DOMAIN s = DOMAIN post[t] /\ s[n] = r /\ \A i \in DOMAIN s : i # n => s[i] = post[t][i]
  BY <1>2, <1>5, <1>6, <1>7
<1>9. post' = [post EXCEPT ![t] = s]
  BY <1>1, <1>3, <1>4, <1>5, <1>7
<1>10. UNCHANGED <<token, cart, user, route, event, step, named, placing>>
  BY <1>2 DEF Served, form
<1>11. Complete(post[t][n]) /\ Complete(r)
  BY <1>1, <1>2, <1>6 DEF TabInv, Complete
<1>12. \A i \in DOMAIN s : Complete(s[i]) /\ s[i].here = post[t][i].here
  BY <1>1, <1>6, <1>8, <1>11 DEF TabInv
<1>13. \A o \in orders' : Complete(o)
  <2>1. PICK lines, holders, e : lines = post[t][n].lines /\ holders = post[t][n].holders /\ e = post[t][n].event
    OBVIOUS
  <2>2. ASSUME NEW o \in orders', o \notin orders PROVE Complete(o)
    <3>1. o = [id |-> Cardinality(orders), tab |-> t, event |-> e, lines |-> lines,
               holders |-> holders, owner |-> post[t][n].by]
      BY <1>2, <2>1, <2>2 DEF Served
    <3> QED
      BY <1>11, <2>1, <3>1 DEF Complete
  <2> QED
    BY <2>2 DEF BookInv
<1>14. placing' = [placing EXCEPT ![t] = placing[t]] /\ placing[t] \in BOOLEAN
  BY <1>1, <1>10
<1>15. /\ \A i, j \in DOMAIN s : s[i].here /\ s[j].here => i = j
       /\ ~placing[t] => \A i \in DOMAIN s : ~s[i].here
       /\ route[t] = "checkout" => ~placing[t]
  BY <1>1, <1>8, <1>12 DEF TabInv
<1> QED
  BY <1>1, <1>8, <1>9, <1>10, <1>12, <1>13, <1>14, <1>15, PostsKeep

LEMMA BookingInitInv == BookingInit => BookInv
<1> SUFFICES ASSUME BookingInit PROVE BookInv
  OBVIOUS
<1>1. <<>> \in Seq(Posts) /\ DOMAIN <<>> = {}
  OBVIOUS
<1>2. BookTyped
  BY <1>1, EmptyCart DEF BookingInit, BookTyped, BookingTypeOK
<1>3. \A t \in Tabs : post[t] = <<>> /\ route[t] = "home"
  BY DEF BookingInit
<1>4. \A t \in Tabs : TabInv(t)
  BY <1>1, <1>3 DEF TabInv
<1> QED
  BY <1>2, <1>4 DEF BookInv, BookingInit

LEMMA BookingInductive == BookingSpec => []BookInv
<1>1. ASSUME BookInv, [BookingNext]_booking PROVE BookInv'
  <2>1. CASE UNCHANGED booking \/ OtherTabSigns
    <3>1. UNCHANGED <<route, event, placing, post, orders, cart, user, step, named>>
          /\ token' \in Users \cup {NoUser}
      BY <1>1, <2>1 DEF booking, OtherTabSigns, form, BookInv, BookTyped, BookingTypeOK
    <3> QED
      BY <1>1, <3>1, FormSteps DEF BookInv, BookTyped, BookingTypeOK
  <2>2. ASSUME NEW t \in Tabs,
               \/ \E e \in Sales : OpenEvent(t, e)
               \/ OpenCart(t) \/ ConfirmLogsIn(t) \/ (\E u \in Users : Login(t, u)) \/ Logout(t)
        PROVE BookInv'
    BY <1>1, <2>2, PageSteps
  <2>3. ASSUME NEW t \in Tabs,
               \/ \E k \in Tiers : AddTier(t, k) \/ SetQuantity(t, k)
               \/ GoToNextFromTickets(t) \/ ContinueToNumber(t) \/ Back(t)
               \/ \E i \in Slots : UpdateAttendee(t, i)
        PROVE BookInv'
    BY <1>1, <2>3, CartSteps, StepSteps
  <2>4. ASSUME NEW t \in Tabs,
               \/ HandleConfirmNumber(t) \/ CreateOrder(t) \/ OrderPlaced(t) \/ Reload(t)
               \/ OrderRefused(t) \/ PostLost(t)
        PROVE BookInv'
    BY <1>1, <2>4, HandleConfirmNumberStep, CreateOrderStep, HearingSteps, RefusedSteps
  <2> QED
    BY <1>1, <2>1, <2>2, <2>3, <2>4 DEF BookingNext
<1> QED
  BY <1>1, BookingInitInv, PTL DEF BookingSpec

\* Type correctness of the carts, the pages and the forms of every tab.
THEOREM BookingTyped == BookingSpec => []BookingTypeOK
<1>1. BookInv => BookingTypeOK
  BY DEF BookInv, BookTyped
<1> QED
  BY <1>1, BookingInductive, PTL

(***************************************************************************)
(* Every order the backend creates covers one event and, with two tickets  *)
(* or more, names the holder of each: whatever the buyer changes between   *)
(* the steps of the form, whichever tab rewrites the saved cart, and       *)
(* however late the request is served.                                     *)
(***************************************************************************)
THEOREM OrdersAreComplete == BookingSpec => []OrdersComplete
<1>1. BookInv => OrdersComplete
  BY DEF BookInv, Complete, OrdersComplete
<1> QED
  BY <1>1, BookingInductive, PTL

(***************************************************************************)
(* A visit of the booking page has one order request under way at most,    *)
(* and none when the checkout page it led to is open: a selection is not   *)
(* reserved twice by pressing, going back or hearing late.                 *)
(***************************************************************************)
THEOREM ReservedOnce == BookingSpec => []OneOrderPerVisit
<1>1. BookInv => OneOrderPerVisit
  <2> SUFFICES ASSUME BookInv, NEW t \in Tabs
               PROVE /\ Cardinality({i \in DOMAIN post[t] : post[t][i].here}) <= 1
                     /\ route[t] = "checkout" => \A i \in DOMAIN post[t] : ~post[t][i].here
    BY DEF OneOrderPerVisit
  <2>1. TabInv(t)
    BY DEF BookInv
  <2>2. PICK H : H = {i \in DOMAIN post[t] : post[t][i].here}
    OBVIOUS
  <2>3. Cardinality(H) <= 1
    <3>1. CASE H = {}
      BY <3>1, FS_EmptySet
    <3>2. CASE H # {}
      <4>1. PICK i : i \in H
        BY <3>2
      <4>2. H = {i}
        BY <2>1, <2>2, <4>1 DEF TabInv
      <4>3. Cardinality({i}) = 1
        BY FS_Singleton
      <4> QED
        BY <4>2, <4>3
    <3> QED
      BY <3>1, <3>2
  <2> QED
    BY <2>1, <2>2, <2>3 DEF TabInv
<1> QED
  BY <1>1, BookingInductive, PTL
=============================================================================
