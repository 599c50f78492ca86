----------------------------- MODULE TicketSale -----------------------------
(***************************************************************************)
(* What the checkout promises a buyer, with every handler, race and retry  *)
(* left out: money is taken by Safaricom, the platform records a payment   *)
(* as successful only once that has happened, never takes the record back, *)
(* and issues the tickets of an order once, on the strength of such a      *)
(* record.  Checkout is shown to implement this module.                    *)
(***************************************************************************)
EXTENDS Naturals

CONSTANTS Orders,    \* the orders buyers may place
          Payments,  \* the payment attempts that may be made for them
          NoOrder    \* the order of a payment that does not exist yet

VARIABLES orderOf,   \* the order each payment attempt is for
          taken,     \* the payments for which money left a buyer's account
          confirmed, \* the payments the platform has recorded as successful
          issued     \* how many sets of tickets each order has been issued

saleVars == <<orderOf, taken, confirmed, issued>>

Init == /\ orderOf = [p \in Payments |-> NoOrder]
        /\ taken = {}
        /\ confirmed = {}
        /\ issued = [o \in Orders |-> 0]

\* A payment attempt comes into being for one order and keeps that order.
Attempt(p, o) == /\ orderOf[p] = NoOrder
                 /\ orderOf' = [orderOf EXCEPT ![p] = o]
                 /\ UNCHANGED <<taken, confirmed, issued>>

\* The buyer's money moves: Safaricom's doing, not the platform's.
Take(p) == /\ taken' = taken \union {p}
           /\ UNCHANGED <<orderOf, confirmed, issued>>

\* The platform records a success only for money that has moved.
Confirm(p) == /\ p \in taken
              /\ confirmed' = confirmed \union {p}
              /\ UNCHANGED <<orderOf, taken, issued>>

\* One set of tickets for an order with a recorded success.
Issue(o) == /\ issued[o] = 0
            /\ \E p \in confirmed : orderOf[p] = o
            /\ issued' = [issued EXCEPT ![o] = 1]
            /\ UNCHANGED <<orderOf, taken, confirmed>>

Next == \/ \E p \in Payments : Take(p) \/ Confirm(p)
        \/ \E p \in Payments, o \in Orders : Attempt(p, o)
        \/ \E o \in Orders : Issue(o)

Spec == Init /\ [][Next]_saleVars
=============================================================================
