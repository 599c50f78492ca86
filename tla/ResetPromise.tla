---------------------------- MODULE ResetPromise ----------------------------
(***************************************************************************)
(* What the forgot-password flow promises an account, with concurrent      *)
(* requests, attempts and expiry left out: there is at most one code that  *)
(* counts, the latest; verifying it gives one authorisation; and an        *)
(* authorisation is good for one password change, unless a newer code or a *)
(* completed reset has ended it before.                                    *)
(***************************************************************************)
EXTENDS Naturals

VARIABLES issued,     \* codes issued so far
          live,       \* the code that counts, 0 if none does
          authorised, \* whether that code has been verified
          password    \* password changes so far

promiseVars == <<issued, live, authorised, password>>

Init == issued = 0 /\ live = 0 /\ authorised = FALSE /\ password = 0

\* A new code ends the one before it and any authorisation that one gave.
Issue == /\ issued' = issued + 1
         /\ live' = issued + 1
         /\ authorised' = FALSE
         /\ UNCHANGED password

Authorise == /\ live # 0
             /\ ~authorised
             /\ authorised' = TRUE
             /\ UNCHANGED <<issued, live, password>>

Withdraw == /\ live # 0
            /\ live' = 0
            /\ authorised' = FALSE
            /\ UNCHANGED <<issued, password>>

Change == /\ live # 0
          /\ authorised
          /\ password' = password + 1
          /\ live' = 0
          /\ authorised' = FALSE
          /\ UNCHANGED issued

Next == Issue \/ Authorise \/ Withdraw \/ Change

Spec == Init /\ [][Next]_promiseVars
=============================================================================
