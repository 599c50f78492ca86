--------------------------- MODULE MCTaxLiability ---------------------------
(* What finance does with the month's VAT, on small instances: the eTIMS    *)
(* documents, the VAT period and a liability with its payment.  The three   *)
(* share no state, so a behaviour of them together is their behaviours      *)
(* interleaved and satisfies the properties of each when they do: one run   *)
(* explores them side by side, and "part" says which one moves.             *)
EXTENDS TaxLiability, TaxPeriods, EtimsOutbox, TLC

CONSTANTS v1, n1

VARIABLE part

MCInvoiceOf == n1 :> v1

FinanceInit ==
  /\ Init /\ PeriodsInit /\ EtimsInit
  /\ part \in {"liability", "period", "etims"}
  /\ part # "etims" => mode = "DISABLED"

FinanceNext ==
  \/ part = "liability" /\ Next /\ UNCHANGED <<periodvars, etimsvars, part>>
  \/ part = "period" /\ PeriodsNext /\ UNCHANGED <<vars, etimsvars, part>>
  \/ part = "etims" /\ EtimsNext /\ UNCHANGED <<vars, periodvars, part>>

FinanceSpec == FinanceInit /\ [][FinanceNext]_<<vars, periodvars, etimsvars, part>>

(* Nothing tells two requests, two users, two PRNs or two sales apart. *)
AnyRoles == Permutations(Handlers) \union Permutations(Users) \union Permutations(Prns)
              \union Permutations(Desk)
=============================================================================
