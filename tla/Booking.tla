------------------------------ MODULE Booking ------------------------------
(***************************************************************************)
(* The buyer's browser from the event page to a placed order: the cart of  *)
(* hooks/useCart.tsx, the signed-in user of hooks/useAuth.tsx, the event   *)
(* page, the booking page app/cart/page.tsx, the log-in page, and the      *)
(* order endpoint they post to.                                            *)
(*                                                                         *)
(* A browser has several tabs.  They share localStorage (the saved cart    *)
(* and the token) and nothing else: each keeps its own copy of both in     *)
(* React state, read once when the page is loaded.  The saved cart is read *)
(* only then, and is by then what some tab, perhaps another, wrote last.   *)
(* A request leaves a tab with the token that localStorage holds then, is  *)
(* served later, and its answer is heard later still, or never.            *)
(***************************************************************************)
EXTENDS Naturals, FiniteSets, FiniteSetsExt, SequencesExt

CONSTANTS
    Tabs,
    Sales, NoEvent,
    Tiers,          \* the ticket types of all events
    TierEvent,      \* the event each tier belongs to
    Users, NoUser,  \* the accounts of the people at this browser
    Customers,      \* those with the role CUSTOMER
    Room,           \* how many tickets each tier has
    MaxQty,         \* bound: tickets of each tier in a cart
    MaxOrders       \* bound: orders placed in a behaviour

ASSUME BookingAssumption ==
    /\ IsFiniteSet(Tiers) /\ TierEvent \in [Tiers -> Sales]
    /\ NoEvent \notin Sales /\ NoUser \notin Users
    /\ Customers \subseteq Users
    /\ MaxQty \in [Tiers -> Nat] /\ MaxOrders \in Nat /\ Room \in [Tiers -> Nat]

VARIABLES
    token,    \* localStorage tfk_token, as the account it names
    cart,     \* per tab: the items of the cart context
    user,     \* per tab: the user of the auth context
    route,    \* per tab: which page is mounted
    event,    \* per tab: the event whose page or booking is open
    step,     \* per tab: the step of the booking flow
    named,    \* per tab: the ticket slots whose holder's details are complete
    placing,  \* per tab: the booking page waits for its order
    post,     \* per tab: the order requests in flight, oldest first
    orders    \* the orders the backend has created

booking == <<token, cart, user, route, event, step, named, placing, post, orders>>
form == <<step, named, placing>>

Cart == {lines \in [Tiers -> 0..Max({MaxQty[k] : k \in Tiers})] : \A k \in Tiers : lines[k] <= MaxQty[k]}
Empty == [k \in Tiers |-> 0]

Total(lines) == MapThenSumSet(LAMBDA k : lines[k], Tiers)
EventsIn(lines) == {TierEvent[k] : k \in {k \in Tiers : lines[k] > 0}}

(* The places for holders in the longest cart. *)
Slots == 1..Total(MaxQty)

(* The lines of event e: all that an order for e may contain. *)
EventItems(lines, e) == [k \in Tiers |-> IF TierEvent[k] = e THEN lines[k] ELSE 0]

-----------------------------------------------------------------------------
(* The cart.  Every change is written through to localStorage, over what   *)
(* another tab may have written since this one read it: what a page load   *)
(* finds there is a cart of one event, or an empty one.                    *)

KeepCart(t, lines) == cart' = [cart EXCEPT ![t] = lines]
SavedCarts == {lines \in Cart : Cardinality(EventsIn(lines)) <= 1}

AddToCart(lines, k, q) ==
    IF EventsIn(lines) \subseteq {TierEvent[k]}
    THEN [lines EXCEPT ![k] = @ + q]
    ELSE [Empty EXCEPT ![k] = q]

-----------------------------------------------------------------------------
(* The booking page. *)

Selected(t) == EventItems(cart[t], event[t])
TicketSlots(t) == 1..Total(Selected(t))
NeedsAttendees(t) == Total(Selected(t)) >= 2

(* Every slot is validated, not only those that were typed. *)
ValidateAttendeesLastOnly(t) == Total(Selected(t)) \in named[t]
ValidateAttendees(t) == TicketSlots(t) \subseteq named[t]

(* What the page shows: nothing to do without an event, or while it is     *)
(* loading, missing or not on sale here; else the fields and buttons of    *)
(* one step.                                                               *)
AtStep(t, s) == route[t] = "cart" /\ event[t] # NoEvent /\ step[t] = s

TicketsView(t) == AtStep(t, "tickets")
AttendeesView(t) == AtStep(t, "attendees")
ConfirmView(t) == AtStep(t, "confirm")

(* The picker: one more or one less of a tier, down to none and up to what *)
(* the tier had left when the event was loaded.                            *)
Picker(t, k) == {Selected(t)[k] + 1, Selected(t)[k] - 1} \cap 0..MaxQty[k]

(* The event page lists the tiers of its event, each to be added to the    *)
(* cart; the log-in page is a form.                                        *)
TierListed(t, k) == route[t] = "event" /\ TierEvent[k] = event[t]
LoginForm(t) == route[t] = "login"

(* A fresh component: useState runs again.  Requests of the one that went  *)
(* away go on, and their answers still reach the contexts of the tab.      *)
MountAfter(t, p, e, inFlight) ==
    /\ event' = [event EXCEPT ![t] = e]
    /\ post' = [post EXCEPT ![t] = [i \in DOMAIN inFlight |-> [inFlight[i] EXCEPT !.here = FALSE]]]
    /\ route' = [route EXCEPT ![t] = p]
    /\ step' = [step EXCEPT ![t] = "tickets"]
    /\ named' = [named EXCEPT ![t] = {}]
    /\ placing' = [placing EXCEPT ![t] = FALSE]

Mount(t, p, e) == MountAfter(t, p, e, post[t])

OpenEvent(t, e) ==
    /\ Mount(t, "event", e)
    /\ UNCHANGED <<token, cart, user, orders>>

AddTier(t, k) ==
    /\ TierListed(t, k)
    /\ \E q \in 1..MaxQty[k] :
        /\ EventsIn(cart[t]) \subseteq {event[t]} => cart[t][k] + q <= MaxQty[k]
        /\ KeepCart(t, AddToCart(cart[t], k, q))
    /\ UNCHANGED <<token, user, route, event, form, post, orders>>

(* /cart?event=<slug>, or /cart: then the event the cart holds, if any. *)
ActiveEvents(t) ==
    Sales \cup (IF cart[t] = Empty THEN {NoEvent} ELSE {})

OpenCart(t) ==
    /\ \E e \in ActiveEvents(t) : Mount(t, "cart", e)
    /\ UNCHANGED <<token, cart, user, orders>>

(* One tap on the picker rewrites the cart with this event's lines. *)
SetQuantity(t, k) ==
    /\ TicketsView(t)
    /\ TierEvent[k] = event[t]
    /\ \E q \in Picker(t, k) : KeepCart(t, [Selected(t) EXCEPT ![k] = q])
    /\ UNCHANGED <<token, user, route, event, form, post, orders>>

GoToNextFromTickets(t) ==
    /\ TicketsView(t)
    /\ Total(Selected(t)) > 0
    /\ step' = [step EXCEPT ![t] = IF NeedsAttendees(t) THEN "attendees" ELSE "confirm"]
    /\ UNCHANGED <<token, cart, user, route, event, named, placing, post, orders>>

(* Typing or clearing a holder's details also cuts the list to the slots   *)
(* there are now.                                                          *)
UpdateAttendee(t, i) ==
    /\ AttendeesView(t)
    /\ i \in TicketSlots(t)
    /\ \E kept \in {named[t] \cup {i}, named[t] \ {i}} :
        named' = [named EXCEPT ![t] = kept \cap TicketSlots(t)]
    /\ UNCHANGED <<token, cart, user, route, event, step, placing, post, orders>>

ContinueToNumber(t) ==
    /\ AttendeesView(t)
    /\ ValidateAttendees(t)
    /\ step' = [step EXCEPT ![t] = "confirm"]
    /\ UNCHANGED <<token, cart, user, route, event, named, placing, post, orders>>

Back(t) ==
    /\ \/ ConfirmView(t) /\ NeedsAttendees(t) /\ step' = [step EXCEPT ![t] = "attendees"]
       \/ /\ AttendeesView(t) \/ (ConfirmView(t) /\ ~NeedsAttendees(t))
          /\ step' = [step EXCEPT ![t] = "tickets"]
    /\ UNCHANGED <<token, cart, user, route, event, named, placing, post, orders>>

(* Without a user the confirm button leads to the log-in page; the cart    *)
(* stays.  A role other than CUSTOMER or a number that is no Kenyan one    *)
(* leaves everything as it is.                                             *)
ConfirmLogsIn(t) ==
    /\ ConfirmView(t)
    /\ ~placing[t]
    /\ Selected(t) # Empty
    /\ user[t] = NoUser
    /\ Mount(t, "login", NoEvent)
    /\ UNCHANGED <<token, cart, user, orders>>

HandleConfirmNumberAgain(t) ==
    /\ ConfirmView(t)
    /\ Selected(t) # Empty
    /\ user[t] \in Customers
    /\ NeedsAttendees(t) => ValidateAttendees(t)
    /\ Len(post[t]) + Cardinality(orders) < MaxOrders
    /\ placing' = [placing EXCEPT ![t] = TRUE]
    /\ post' = [post EXCEPT ![t] = Append(@,
           [event |-> event[t], lines |-> Selected(t), by |-> token, answer |-> "none", heard |-> TRUE, here |-> TRUE,
            holders |-> IF NeedsAttendees(t) THEN named[t] \cap TicketSlots(t) ELSE {}])]
    /\ UNCHANGED <<token, cart, user, route, event, step, named, orders>>

(* The button is disabled while the page waits for the answer. *)
HandleConfirmNumber(t) ==
    /\ ~placing[t]
    /\ HandleConfirmNumberAgain(t)

-----------------------------------------------------------------------------
(* The order endpoint, POST /orders, behind the role guard.  The quantities *)
(* reserved so far decide whether the tier has room; the event itself may  *)
(* have been taken off sale meanwhile.                                     *)

Sold(k) == MapThenSumSet(LAMBDA o : o.lines[k], orders)

MayCreate(r) ==
    /\ r.by \in Customers
    /\ \A k \in Tiers : r.lines[k] <= Room[k] - Sold(k)

PostAnswered(t, i, a) == post' = [post EXCEPT ![t][i].answer = a]

Served(t, i) ==
    LET r == post[t][i] IN
    /\ r.answer = "none"
    /\ \/ /\ MayCreate(r)
          /\ orders' = orders \cup
                {[id |-> Cardinality(orders), tab |-> t, event |-> r.event, lines |-> r.lines,
                  holders |-> r.holders, owner |-> r.by]}
          /\ PostAnswered(t, i, "created")
       \/ /\ PostAnswered(t, i, IF r.by = NoUser THEN "unauthorised" ELSE "refused")
          /\ UNCHANGED orders
    /\ UNCHANGED <<token, cart, user, route, event, form>>

CreateOrder(t) == \E i \in DOMAIN post[t] : Served(t, i)

(* The tab hears that its order exists: the cart is emptied and the        *)
(* checkout page opens, wherever the tab is by now.                        *)
OrderPlaced(t) ==
    /\ post[t] # <<>> /\ Head(post[t]).answer = "created" /\ Head(post[t]).heard
    /\ KeepCart(t, Empty)
    /\ MountAfter(t, "checkout", NoEvent, Tail(post[t]))
    /\ UNCHANGED <<token, user, orders>>

(* A refusal re-enables the button.  A 401 also removes the token, in the  *)
(* interceptor of lib/api.ts; the context of the tab keeps its user.       *)
OrderRefused(t) ==
    /\ post[t] # <<>> /\ Head(post[t]).answer \in {"refused", "unauthorised"} /\ Head(post[t]).heard
    /\ post' = [post EXCEPT ![t] = Tail(@)]
    /\ placing' = [placing EXCEPT ![t] = @ /\ ~Head(post[t]).here]
    /\ token' = IF Head(post[t]).answer = "unauthorised" THEN NoUser ELSE token
    /\ UNCHANGED <<cart, user, route, event, step, named, orders>>

(* The connection breaks: to the page it is a refusal, whatever the server *)
(* did with the request.                                                   *)
PostLost(t) ==
    /\ post[t] # <<>> /\ Head(post[t]).answer # "none"
    /\ post' = [post EXCEPT ![t] = Tail(@)]
    /\ placing' = [placing EXCEPT ![t] = @ /\ ~Head(post[t]).here]
    /\ UNCHANGED <<token, cart, user, route, event, step, named, orders>>

-----------------------------------------------------------------------------
(* Signing in and out. *)

(* persist: the token for every tab, the user for this one. *)
Login(t, u) ==
    /\ LoginForm(t)
    /\ token' = u
    /\ user' = [user EXCEPT ![t] = u]
    /\ Mount(t, "home", NoEvent)
    /\ UNCHANGED <<cart, orders>>

Logout(t) ==
    /\ user[t] # NoUser
    /\ token' = NoUser
    /\ user' = [user EXCEPT ![t] = NoUser]
    /\ Mount(t, "login", NoEvent)
    /\ UNCHANGED <<cart, orders>>

(* A full page load: both contexts read localStorage again, and no answer  *)
(* to an earlier request will be heard.                                    *)
Reload(t) ==
    /\ \E saved \in SavedCarts : cart' = [cart EXCEPT ![t] = saved]
    /\ user' = [user EXCEPT ![t] = token]
    /\ MountAfter(t, IF route[t] = "login" THEN "login" ELSE "home", NoEvent,
                  [i \in DOMAIN post[t] |-> [post[t][i] EXCEPT !.heard = FALSE]])
    /\ UNCHANGED <<token, orders>>

(* The browser's other tabs, which leave a cart (SavedCarts) and a token,  *)
(* or take it away.                                                        *)
OtherTabSigns ==
    /\ token' \in Users \cup {NoUser}
    /\ UNCHANGED <<cart, user, route, event, form, post, orders>>

-----------------------------------------------------------------------------
BookingInit ==
    /\ token = NoUser /\ orders = {}
    /\ cart = [t \in Tabs |-> Empty]
    /\ user = [t \in Tabs |-> NoUser]
    /\ route = [t \in Tabs |-> "home"]
    /\ event = [t \in Tabs |-> NoEvent]
    /\ step = [t \in Tabs |-> "tickets"]
    /\ named = [t \in Tabs |-> {}]
    /\ placing = [t \in Tabs |-> FALSE]
    /\ post = [t \in Tabs |-> <<>>]

BookingNext ==
    \/ OtherTabSigns
    \/ \E t \in Tabs :
        \/ \E e \in Sales : OpenEvent(t, e)
        \/ \E k \in Tiers : AddTier(t, k) \/ SetQuantity(t, k)
        \/ OpenCart(t) \/ GoToNextFromTickets(t) \/ ContinueToNumber(t) \/ Back(t)
        \/ \E i \in Slots : UpdateAttendee(t, i)
        \/ ConfirmLogsIn(t) \/ HandleConfirmNumber(t)
        \/ CreateOrder(t) \/ OrderPlaced(t) \/ OrderRefused(t) \/ PostLost(t)
        \/ \E u \in Users : Login(t, u)
        \/ Logout(t) \/ Reload(t)

BookingSpec == BookingInit /\ [][BookingNext]_booking

-----------------------------------------------------------------------------
(* Every order and every cart is well formed and of the declared kinds. *)
BookingTypeOK ==
    /\ cart \in [Tabs -> Cart]
    /\ token \in Users \cup {NoUser} /\ user \in [Tabs -> Users \cup {NoUser}]
    /\ route \in [Tabs -> {"home", "event", "cart", "login", "checkout"}]
    /\ event \in [Tabs -> Sales \cup {NoEvent}]
    /\ step \in [Tabs -> {"tickets", "attendees", "confirm"}]
    /\ placing \in [Tabs -> BOOLEAN]
    /\ \A t \in Tabs : named[t] \subseteq Slots

(* An order covers one event, and names a holder for each ticket when it   *)
(* has two or more: whatever the buyer changed on the way, and whichever   *)
(* tab rewrote the cart (validateAttendees, eventItems, setQuantity).      *)
OrdersComplete ==
    \A o \in orders :
        /\ EventsIn(o.lines) = {o.event}
        /\ Total(o.lines) >= 2 => o.holders = 1..Total(o.lines)

(* One visit of the booking page has at most one order request under way,  *)
(* and none any more once it heard that its order exists: one selection is *)
(* reserved once (the placing flag, clearCart).                            *)
OneOrderPerVisit ==
    \A t \in Tabs :
        /\ Cardinality({i \in DOMAIN post[t] : post[t][i].here}) <= 1
        /\ route[t] = "checkout" => \A i \in DOMAIN post[t] : ~post[t][i].here
=============================================================================
