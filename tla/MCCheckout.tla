----------------------------- MODULE MCCheckout -----------------------------
(* Small instances of Checkout. *)
EXTENDS Checkout, TLC

OneEach == [o \in Orders |-> 1]
AnyWorker == Permutations(Workers)

(* What must come about, with a retry: sales go on, and a restart comes     *)
(* before the second payment if it comes at all.  Neither is fair, so this  *)
(* leaves every fair behaviour without them in place.                       *)
SettlesNext == Next /\ onSale' /\ (crashes' > crashes => made <= 1)
SettlesSpec == Init /\ [][SettlesNext]_vars /\ Fairness
=============================================================================
