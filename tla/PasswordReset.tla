--------------------------- MODULE PasswordReset ---------------------------
(***************************************************************************)
(* The forgot-password flow of password-reset.service.ts for one account,  *)
(* its three requests interleaved at every database statement.  Requests   *)
(* of different accounts touch different rows and do not meet.             *)
(***************************************************************************)
EXTENDS Integers, FiniteSets

CONSTANTS
  Handlers,         \* requests that may be in flight at the same time
  MaxCodeAttempts,  \* MAX_CODE_ATTEMPTS
  MaxCodesPerHour,  \* MAX_CODES_PER_HOUR
  Cooldown, CodeTtl, TokenTtl, Hour, Retention, \* durations, in clock ticks
  MaxRequests,      \* bound: codes ever issued
  MaxTime           \* bound: the clock

Requests == 1..MaxRequests

ASSUME PasswordResetAssumption ==
  /\ MaxCodeAttempts \in Nat /\ MaxCodesPerHour \in Nat
  /\ Cooldown \in Nat /\ CodeTtl \in Nat /\ TokenTtl \in Nat
  /\ Hour \in Nat /\ Retention \in Nat
  /\ Hour <= Retention
  /\ MaxRequests \in Nat /\ MaxTime \in Nat

VARIABLES
  now,      \* the clock
  made,     \* PasswordResetRequest rows created so far: they are 1..made, in order
  row,      \* the rows
  password, \* password changes so far
  pc,       \* what each handler does next
  ctx       \* its local variables

vars == <<now, made, row, password, pc, ctx>>

Row == [present : BOOLEAN, createdAt : Nat, attempts : Nat, verifiedAt : BOOLEAN,
        resetTokenExpiresAt : Nat, consumedAt : BOOLEAN, invalidatedAt : BOOLEAN]
NoRow == [present |-> FALSE, createdAt |-> 0, attempts |-> 0, verifiedAt |-> FALSE,
          resetTokenExpiresAt |-> 0, consumedAt |-> FALSE, invalidatedAt |-> FALSE]
Labels == {"idle", "issue", "claim", "compare", "count", "lock", "verify", "consume"}

\* seen: the rows as the issuing transaction read them; request: the row worked on;
\* guess: the request whose code was typed in, 0 for a code that is none of them.
Context == [seen : [Requests -> Row], request : Requests \union {0}, guess : Requests \union {0}]
Idle == [seen |-> [r \in Requests |-> NoRow], request |-> 0, guess |-> 0]

Init ==
  /\ now = 0
  /\ made = 0
  /\ row = [r \in Requests |-> NoRow]
  /\ password = 0
  /\ pc = [h \in Handlers |-> "idle"]
  /\ ctx = [h \in Handlers |-> Idle]

Goto(h, label) == /\ pc' = [pc EXCEPT ![h] = label]
                  /\ UNCHANGED ctx
Finish(h) == /\ pc' = [pc EXCEPT ![h] = "idle"]
             /\ ctx' = [ctx EXCEPT ![h] = Idle]

Open(r) == row[r].present /\ ~row[r].invalidatedAt

\* Every open request is closed (the updateMany of issueCode and resetPassword).
Closed(rows) == [r \in Requests |-> IF rows[r].present THEN [rows[r] EXCEPT !.invalidatedAt = TRUE]
                                                       ELSE rows[r]]

-----------------------------------------------------------------------------
(* issueCode: one SERIALIZABLE transaction.  It reads, decides, and commits *)
(* only if no row it depends on has changed since; its times are taken to   *)
(* be that of the commit.                                                   *)

Recent == {r \in Requests : row[r].present /\ row[r].createdAt >= now - Hour}

CodesAllowed == Cardinality(Recent) < MaxCodesPerHour

IssueRead(h) ==
  /\ pc[h] = "idle"
  /\ \A r \in Recent : now - row[r].createdAt >= Cooldown
  /\ CodesAllowed
  /\ pc' = [pc EXCEPT ![h] = "issue"]
  /\ ctx' = [ctx EXCEPT ![h].seen = row]
  /\ UNCHANGED <<now, made, row, password>>

\* Mutant: the default isolation level, READ COMMITTED.
IssueUnserialized(h) ==
  /\ pc[h] = "issue"
  /\ made < MaxRequests
  /\ made' = made + 1
  /\ row' = [Closed(row) EXCEPT ![made + 1] = [NoRow EXCEPT !.present = TRUE, !.createdAt = now]]
  /\ Finish(h)
  /\ UNCHANGED <<now, password>>

IssueCommit(h) ==
  /\ pc[h] = "issue"
  /\ \/ /\ row = ctx[h].seen
        /\ made < MaxRequests
        /\ made' = made + 1
        /\ row' = [Closed(row) EXCEPT ![made + 1] = [NoRow EXCEPT !.present = TRUE, !.createdAt = now]]
     \/ /\ row # ctx[h].seen
        /\ UNCHANGED <<made, row>>
  /\ Finish(h)
  /\ UNCHANGED <<now, password>>

-----------------------------------------------------------------------------
(* verifyCodeInner. *)

Active == {r \in Requests : /\ Open(r)
                            /\ ~row[r].verifiedAt
                            /\ row[r].createdAt + CodeTtl > now
                            /\ row[r].attempts < MaxCodeAttempts}

VerifyFind(h, guess) ==
  /\ pc[h] = "idle"
  /\ guess <= made
  /\ \E r \in Active :
       /\ \A q \in Active : q <= r
       /\ pc' = [pc EXCEPT ![h] = "claim"]
       /\ ctx' = [ctx EXCEPT ![h].request = r, ![h].guess = guess]
  /\ UNCHANGED <<now, made, row, password>>

\* Mutant: the attempt is counted whatever the row has become.
MayTryAlways(r) == row[r].present

\* The guard of the claiming update.  It compares expiry with the time the look-up
\* ran, which the look-up has done already.
MayTry(r) == Open(r) /\ ~row[r].verifiedAt /\ row[r].attempts < MaxCodeAttempts

VerifyClaim(h) ==
  LET r == ctx[h].request IN
  /\ pc[h] = "claim"
  /\ \/ /\ MayTry(r)
        /\ row' = [row EXCEPT ![r].attempts = @ + 1]
        /\ Goto(h, IF ctx[h].guess = r THEN "verify" ELSE "count")
     \/ /\ ~MayTry(r)
        /\ UNCHANGED row
        /\ Finish(h)
  /\ UNCHANGED <<now, made, password>>

\* A wrong code: was it the last guess?
VerifyCount(h) ==
  LET r == ctx[h].request IN
  /\ pc[h] = "count"
  /\ IF row[r].present /\ row[r].attempts >= MaxCodeAttempts THEN Goto(h, "lock") ELSE Finish(h)
  /\ UNCHANGED <<now, made, row, password>>

VerifyLock(h) ==
  LET r == ctx[h].request IN
  /\ pc[h] = "lock"
  /\ row' = [row EXCEPT ![r].invalidatedAt = @ \/ row[r].present]
  /\ Finish(h)
  /\ UNCHANGED <<now, made, password>>

MayVerify(r) == Open(r) /\ ~row[r].verifiedAt /\ ~row[r].consumedAt

\* Mutant: the sign of the token's lifetime.
TokenExpiryBackwards == now - TokenTtl

TokenExpiry == now + TokenTtl

VerifySet(h) ==
  LET r == ctx[h].request IN
  /\ pc[h] = "verify"
  /\ row' = IF MayVerify(r)
            THEN [row EXCEPT ![r].verifiedAt = TRUE, ![r].resetTokenExpiresAt = TokenExpiry]
            ELSE row
  /\ Finish(h)
  /\ UNCHANGED <<now, made, password>>

-----------------------------------------------------------------------------
(* resetPassword with the token of request r: a look-up, the slow hash, and *)
(* a transaction that first consumes the authorisation.                     *)

MayReset(r) == Open(r) /\ row[r].verifiedAt /\ ~row[r].consumedAt /\ row[r].resetTokenExpiresAt > now

ResetRead(h, r) ==
  /\ pc[h] = "idle"
  /\ MayReset(r)
  /\ pc' = [pc EXCEPT ![h] = "consume"]
  /\ ctx' = [ctx EXCEPT ![h].request = r]
  /\ UNCHANGED <<now, made, row, password>>

\* Mutant: the look-up's verdict is relied on; only presence is checked again.
MayConsumeStale(r) == row[r].present

MayConsume(r) == Open(r) /\ ~row[r].consumedAt /\ row[r].resetTokenExpiresAt > now

ResetConsume(h) ==
  LET r == ctx[h].request IN
  /\ pc[h] = "consume"
  /\ \/ /\ MayConsume(r)
        /\ row' = [Closed(row) EXCEPT ![r].consumedAt = TRUE]
        /\ password' = password + 1
     \/ /\ ~MayConsume(r)
        /\ UNCHANGED <<row, password>>
  /\ Finish(h)
  /\ UNCHANGED <<now, made>>

-----------------------------------------------------------------------------
\* purgeStaleRequests.
Purge ==
  /\ row' = [r \in Requests |-> IF row[r].present /\ row[r].createdAt < now - Retention
                                THEN NoRow ELSE row[r]]
  /\ row' # row
  /\ UNCHANGED <<now, made, password, pc, ctx>>

Tick ==
  /\ now < MaxTime
  /\ now' = now + 1
  /\ UNCHANGED <<made, row, password, pc, ctx>>

Verification(h) == VerifyClaim(h) \/ VerifyCount(h) \/ VerifyLock(h) \/ VerifySet(h)

Next == \/ \E h \in Handlers : \/ IssueRead(h) \/ IssueCommit(h) \/ Verification(h) \/ ResetConsume(h)
                               \/ \E g \in Requests \union {0} : VerifyFind(h, g)
                               \/ \E r \in Requests : ResetRead(h, r)
        \/ Purge
        \/ Tick

Spec == Init /\ [][Next]_vars

-----------------------------------------------------------------------------
(* Properties. *)

\* Every variable keeps its type.
TypeOK ==
  /\ now \in Nat
  /\ made \in 0..MaxRequests
  /\ row \in [Requests -> Row]
  /\ password \in Nat
  /\ pc \in [Handlers -> Labels]
  /\ ctx \in [Handlers -> Context]

\* No burst of parallel guesses gets more tries at one code than MAX_CODE_ATTEMPTS
\* ("Spend an attempt before comparing", verifyCodeInner).
AttemptsCapped == \A r \in Requests : row[r].attempts <= MaxCodeAttempts

\* No burst of parallel requests gets more codes issued within an hour than
\* MAX_CODES_PER_HOUR, purging included (issueCode).
CodesPerHour == Cardinality(Recent) <= MaxCodesPerHour

\* The flow implements ResetPromise, however the requests interleave: one code
\* counts, a verified one gives one password change, and neither outlives a newer
\* code or a completed reset ("concurrent requests cannot double-spend a code ...
\* or replay a reset").
Live == IF \E r \in Requests : Open(r) THEN CHOOSE r \in Requests : Open(r) ELSE 0
Promise == INSTANCE ResetPromise WITH
             issued <- made, live <- Live, authorised <- Live # 0 /\ row[Live].verifiedAt
ImplementsResetPromise == Promise!Spec
=============================================================================
