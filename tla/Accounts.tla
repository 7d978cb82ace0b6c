------------------------------- MODULE Accounts -------------------------------
(***************************************************************************)
(* Accounts: signing up, verifying the mail address, logging in and        *)
(* resetting the password, by any number of requests at once.              *)
(*                                                                         *)
(* The database is SQLite, where a transaction runs alone, or Postgres,    *)
(* where each statement sees what was committed when it began.  Failed     *)
(* logins are counted in the server's memory or in Redis.                  *)
(*                                                                         *)
(* Time is left open: a token may expire, and a failed login may leave the *)
(* lockout's window, at any moment.                                        *)
(***************************************************************************)
EXTENDS Naturals, FiniteSets

CONSTANTS Requests,         \* requests being served at once
          Users, Emails, Passwords,
          Tokens,           \* the mail tokens ever drawn: a bound, for TLC
          MaxFailures,      \* LoginLockoutMaxFailures
          FailureBound,     \* logins start below this count: a bound, for TLC
          MetaDriver,       \* "sqlite" or "postgres"
          LockoutDriver,    \* "memory" or "redis"
          Faults,           \* may calls fail and servers crash?
          None

ASSUME AccountsAssumption ==
    /\ MaxFailures \in Nat \ {0}
    /\ FailureBound \in Nat
    /\ MetaDriver \in {"sqlite", "postgres"}
    /\ LockoutDriver \in {"memory", "redis"}
    /\ Faults \in BOOLEAN
    /\ IsFiniteSet(Requests)

Accounts == [email : Emails, password : Passwords, verified : BOOLEAN]
Verifications == [user : Users, expired : BOOLEAN]
Resets == [user : Users, status : {"live", "expired", "used"}]

Codes == {"created", "conflict", "verified", "badToken", "tooMany",
          "unauthorized", "token", "sent", "reset"}
Responses == [to : Requests, code : Codes]

\* None is no user, password, token, request, row or response.
ASSUME AccountsNoneAssumption ==
    None \notin Users \cup Passwords \cup Tokens \cup Requests
              \cup Accounts \cup Verifications \cup Resets \cup Responses

\* What a request carries; token is the one presented, or the one drawn for it.
Inputs == [user : Users \cup {None}, email : Emails \cup {None},
           password : Passwords \cup {None}, token : Tokens \cup {None}]

SignupPlaces == {"createUser", "createVerification", "mailVerification"}
VerifyPlaces == {"consumeVerification", "commitVerification"}
LoginPlaces == {"locked", "readUser", "matched", "mismatched", "issueToken"}
ResetPlaces == {"findUser", "createReset", "mailReset"}
ConfirmPlaces == {"consumeReset", "markUsed", "updatePassword"}
InFlight == SignupPlaces \cup VerifyPlaces \cup LoginPlaces \cup ResetPlaces
            \cup ConfirmPlaces

VARIABLES
    accounts,       \* table users:     [Users -> Accounts \cup {None}]
    apiTokens,      \* table tokens:    the users who have one
    verifications,  \* table email_verifications
    resets,         \* table password_resets
    mailed,         \* the tokens that reached their user's mailbox
    drawn,          \* the tokens drawn so far: none is drawn twice
    failures,       \* [Users -> Nat], the failed logins within the window
    place,          \* where each request's handler is
    input,          \* what it carries, while it is served
    response        \* the good or bad news this very step sends, if any

tables == <<accounts, apiTokens, verifications, resets>>
vars == <<accounts, apiTokens, verifications, resets, mailed, drawn, failures,
          place, input, response>>

NoInput == [user |-> None, email |-> None, password |-> None, token |-> None]

Init ==
    /\ accounts = [u \in Users |-> None]
    /\ apiTokens = {}
    /\ verifications = [t \in Tokens |-> None]
    /\ resets = [t \in Tokens |-> None]
    /\ mailed = {}
    /\ drawn = {}
    /\ failures = [u \in Users |-> 0]
    /\ place = [r \in Requests |-> "idle"]
    /\ input = [r \in Requests |-> NoInput]
    /\ response = None
-----------------------------------------------------------------------------
\* Helpers

\* A request with input in arrives at a handler that begins at p.
Arrive(r, p, in) == /\ place[r] = "idle"
                    /\ place' = [place EXCEPT ![r] = p]
                    /\ input' = [input EXCEPT ![r] = in]
                    /\ response' = None
                    /\ UNCHANGED <<tables, mailed, failures>>

At(r, p) == place[r] = p

Goto(r, p) == /\ place' = [place EXCEPT ![r] = p]
              /\ response' = None
              /\ UNCHANGED input

\* The handler answers; whether that arrives makes no difference here.
Reply(r, code) ==
    /\ place' = [place EXCEPT ![r] = "idle"]
    /\ input' = [input EXCEPT ![r] = NoInput]
    /\ response' = [to |-> r, code |-> code]
-----------------------------------------------------------------------------
(***************************************************************************)
(* Signing up                                                              *)
(***************************************************************************)
StartSignup(r) ==
    \E u \in Users, e \in Emails, p \in Passwords, t \in Tokens \ drawn :
        /\ Arrive(r, "createUser", [user |-> u, email |-> e, password |-> p, token |-> t])
        /\ drawn' = drawn \cup {t}

\* username and email are UNIQUE columns.
CreateUser(r) ==
    /\ At(r, "createUser")
    /\ LET in == input[r] IN
         IF \E u \in Users : accounts[u] # None /\ (u = in.user \/ accounts[u].email = in.email)
           THEN Reply(r, "conflict") /\ UNCHANGED accounts
           ELSE /\ accounts' = [accounts EXCEPT ![in.user] =
                      [email |-> in.email, password |-> in.password, verified |-> FALSE]]
                /\ Goto(r, "createVerification")
    /\ UNCHANGED <<apiTokens, verifications, resets, mailed, drawn, failures>>

CreateVerification(r) ==
    /\ At(r, "createVerification")
    /\ verifications' = [verifications EXCEPT ![input[r].token] =
                            [user |-> input[r].user, expired |-> FALSE]]
    /\ Goto(r, "mailVerification")
    /\ UNCHANGED <<accounts, apiTokens, resets, mailed, drawn, failures>>

MailVerification(r) ==
    /\ At(r, "mailVerification")
    /\ mailed' = mailed \cup {input[r].token}
    /\ Reply(r, "created")
    /\ UNCHANGED <<tables, drawn, failures>>

\* A verification that cannot be stored or mailed is only logged.
SkipVerification(r) ==
    /\ Faults
    /\ place[r] \in {"createVerification", "mailVerification"}
    /\ Reply(r, "created")
    /\ UNCHANGED <<tables, mailed, drawn, failures>>

(***************************************************************************)
(* Verifying the mail address                                              *)
(***************************************************************************)

\* Tokens cannot be guessed: whoever presents one has read the mail, or
\* presents something that was never drawn (None).
StartVerify(r) ==
    \E t \in mailed \cup {None} :
        /\ Arrive(r, "consumeVerification", [NoInput EXCEPT !.token = t])
        /\ UNCHANGED drawn

Verifiable(t) == t # None /\ verifications[t] # None /\ ~verifications[t].expired

\* DELETE the token, UPDATE the user, COMMIT.
Verify(r, u) == /\ verifications' = [verifications EXCEPT ![input[r].token] = None]
                /\ accounts' = [accounts EXCEPT ![u].verified = TRUE]
                /\ Reply(r, "verified")

SqliteConsumeVerification(r) ==
    /\ At(r, "consumeVerification")
    /\ MetaDriver = "sqlite"
    /\ LET t == input[r].token IN
         IF Verifiable(t)
           THEN Verify(r, verifications[t].user)
           ELSE Reply(r, "badToken") /\ UNCHANGED <<verifications, accounts>>
    /\ UNCHANGED <<apiTokens, resets, mailed, drawn, failures>>

\* The handler goes on with the user whose row it has read.
GotoWithUser(r, p, u) == /\ place' = [place EXCEPT ![r] = p]
                         /\ input' = [input EXCEPT ![r].user = u]
                         /\ response' = None

\* The SELECT takes no lock.
PgSelectVerification(r) ==
    /\ At(r, "consumeVerification")
    /\ MetaDriver = "postgres"
    /\ LET t == input[r].token IN
         IF Verifiable(t) THEN GotoWithUser(r, "commitVerification", verifications[t].user)
                          ELSE Reply(r, "badToken")
    /\ UNCHANGED <<tables, mailed, drawn, failures>>

\* A transaction that has the row's lock only commits or dies, so locking,
\* waiting and writing are one step.  The DELETE may find the row gone.
PgCommitVerification(r) ==
    /\ At(r, "commitVerification")
    /\ Verify(r, input[r].user)
    /\ UNCHANGED <<apiTokens, resets, mailed, drawn, failures>>

(***************************************************************************)
(* Logging in: the lockout, the password, the lockout again, the API token *)
(***************************************************************************)
StartLogin(r) ==
    \E u \in Users, p \in Passwords :
        /\ failures[u] < FailureBound
        /\ Arrive(r, "locked", [NoInput EXCEPT !.user = u, !.password = p])
        /\ UNCHANGED drawn

\* (A bug: > for >=.)
LockedLate(r) ==
    /\ At(r, "locked")
    /\ IF failures[input[r].user] > MaxFailures THEN Reply(r, "tooMany") ELSE Goto(r, "readUser")
    /\ UNCHANGED <<tables, mailed, drawn, failures>>

Locked(r) ==
    /\ At(r, "locked")
    /\ IF failures[input[r].user] >= MaxFailures THEN Reply(r, "tooMany") ELSE Goto(r, "readUser")
    /\ UNCHANGED <<tables, mailed, drawn, failures>>

\* Redis is out of reach: nobody is locked out.
LockedFailsOpen(r) ==
    /\ Faults
    /\ LockoutDriver = "redis"
    /\ At(r, "locked")
    /\ Goto(r, "readUser")
    /\ UNCHANGED <<tables, mailed, drawn, failures>>

\* The password is compared with the row as it is now; a later reset makes
\* no difference to this login.
ReadUser(r) ==
    /\ At(r, "readUser")
    /\ LET row == accounts[input[r].user] IN
         Goto(r, IF row # None /\ row.password = input[r].password THEN "matched"
                                                                  ELSE "mismatched")
    /\ UNCHANGED <<tables, mailed, drawn, failures>>

\* A row that cannot be read counts as a wrong password.
ReadUserFails(r) ==
    /\ Faults
    /\ At(r, "readUser")
    /\ Goto(r, "mismatched")
    /\ UNCHANGED <<tables, mailed, drawn, failures>>

RecordFailure(r) ==
    /\ At(r, "mismatched")
    /\ failures' = [failures EXCEPT ![input[r].user] = @ + 1]
    /\ Reply(r, "unauthorized")
    /\ UNCHANGED <<tables, mailed, drawn>>

Reset(r) ==
    /\ At(r, "matched")
    /\ failures' = [failures EXCEPT ![input[r].user] = 0]
    /\ Goto(r, "issueToken")
    /\ UNCHANGED <<tables, mailed, drawn>>

\* Redis is out of reach: the failure, or its reset, is lost.
LockoutLost(r) ==
    /\ Faults
    /\ LockoutDriver = "redis"
    /\ \/ At(r, "mismatched") /\ Reply(r, "unauthorized")
       \/ At(r, "matched") /\ Goto(r, "issueToken")
    /\ UNCHANGED <<tables, mailed, drawn, failures>>

IssueToken(r) ==
    /\ At(r, "issueToken")
    /\ apiTokens' = apiTokens \cup {input[r].user}
    /\ Reply(r, "token")
    /\ UNCHANGED <<accounts, verifications, resets, mailed, drawn, failures>>

\* (A bug: a locked account's failures are kept until a login resets them.)
AgeOutUnlocked(u) ==
    /\ failures[u] \in 1..MaxFailures - 1
    /\ failures' = [failures EXCEPT ![u] = @ - 1]
    /\ response' = None
    /\ UNCHANGED <<tables, mailed, drawn, place, input>>

\* The oldest failure leaves the trailing window.
AgeOut(u) ==
    /\ failures[u] > 0
    /\ failures' = [failures EXCEPT ![u] = @ - 1]
    /\ response' = None
    /\ UNCHANGED <<tables, mailed, drawn, place, input>>

(***************************************************************************)
(* Resetting the password                                                  *)
(***************************************************************************)
StartReset(r) ==
    \E u \in Users, t \in Tokens \ drawn :
        /\ Arrive(r, "findUser", [NoInput EXCEPT !.user = u, !.token = t])
        /\ drawn' = drawn \cup {t}

\* A user nobody knows gets the same answer, and no token.
FindUser(r) ==
    /\ At(r, "findUser")
    /\ IF accounts[input[r].user] = None THEN Reply(r, "sent") ELSE Goto(r, "createReset")
    /\ UNCHANGED <<tables, mailed, drawn, failures>>

\* (A bug: the row gets no expires_at.)
CreateResetEndless(r) ==
    /\ At(r, "createReset")
    /\ resets' = [resets EXCEPT ![input[r].token] =
                     [user |-> input[r].user, status |-> "endless"]]
    /\ Goto(r, "mailReset")
    /\ UNCHANGED <<accounts, apiTokens, verifications, mailed, drawn, failures>>

CreateReset(r) ==
    /\ At(r, "createReset")
    /\ resets' = [resets EXCEPT ![input[r].token] =
                     [user |-> input[r].user, status |-> "live"]]
    /\ Goto(r, "mailReset")
    /\ UNCHANGED <<accounts, apiTokens, verifications, mailed, drawn, failures>>

MailReset(r) ==
    /\ At(r, "mailReset")
    /\ mailed' = mailed \cup {input[r].token}
    /\ Reply(r, "sent")
    /\ UNCHANGED <<tables, drawn, failures>>

StartConfirm(r) ==
    \E t \in mailed \cup {None}, p \in Passwords :
        /\ Arrive(r, "consumeReset", [NoInput EXCEPT !.token = t, !.password = p])
        /\ UNCHANGED drawn

Usable(t) == t # None /\ resets[t] # None /\ resets[t].status = "live"

MarkUsed(r) == resets' = [resets EXCEPT ![input[r].token].status = "used"]

\* (A bug: used_at is not set.)
SqliteConsumeUnmarked(r) ==
    /\ At(r, "consumeReset")
    /\ MetaDriver = "sqlite"
    /\ LET t == input[r].token IN
         IF Usable(t) THEN GotoWithUser(r, "updatePassword", resets[t].user)
                      ELSE Reply(r, "badToken")
    /\ UNCHANGED <<tables, mailed, drawn, failures>>

SqliteConsumeReset(r) ==
    /\ At(r, "consumeReset")
    /\ MetaDriver = "sqlite"
    /\ LET t == input[r].token IN
         IF Usable(t)
           THEN MarkUsed(r) /\ GotoWithUser(r, "updatePassword", resets[t].user)
           ELSE Reply(r, "badToken") /\ UNCHANGED resets
    /\ UNCHANGED <<accounts, apiTokens, verifications, mailed, drawn, failures>>

PgSelectReset(r) ==
    /\ At(r, "consumeReset")
    /\ MetaDriver = "postgres"
    /\ LET t == input[r].token IN
         IF Usable(t) THEN GotoWithUser(r, "markUsed", resets[t].user)
                      ELSE Reply(r, "badToken")
    /\ UNCHANGED <<tables, mailed, drawn, failures>>

\* (A bug: the transaction is not committed.)
PgMarkRolledBack(r) ==
    /\ At(r, "markUsed")
    /\ Goto(r, "updatePassword")
    /\ UNCHANGED <<tables, mailed, drawn, failures>>

\* The UPDATE waits for a transaction that has written the row, and then
\* writes it again: its WHERE clause asks for the token, not for used_at.
PgMarkUsed(r) ==
    /\ At(r, "markUsed")
    /\ MarkUsed(r)
    /\ Goto(r, "updatePassword")
    /\ UNCHANGED <<accounts, apiTokens, verifications, mailed, drawn, failures>>

\* (A bug: the new hash is not written.)
UpdatePasswordSkipped(r) ==
    /\ At(r, "updatePassword")
    /\ Reply(r, "reset")
    /\ UNCHANGED <<tables, mailed, drawn, failures>>

\* A statement of its own, after the transaction that consumed the token.
UpdatePassword(r) ==
    /\ At(r, "updatePassword")
    /\ accounts' = [accounts EXCEPT ![input[r].user].password = input[r].password]
    /\ Reply(r, "reset")
    /\ UNCHANGED <<apiTokens, verifications, resets, mailed, drawn, failures>>

(***************************************************************************)
(* Time and failures                                                       *)
(***************************************************************************)
Expire(t) ==
    /\ \/ /\ verifications[t] # None /\ ~verifications[t].expired
          /\ verifications' = [verifications EXCEPT ![t].expired = TRUE]
          /\ UNCHANGED resets
       \/ /\ resets[t] # None /\ resets[t].status = "live"
          /\ resets' = [resets EXCEPT ![t].status = "expired"]
          /\ UNCHANGED verifications
    /\ response' = None
    /\ UNCHANGED <<accounts, apiTokens, mailed, drawn, failures, place, input>>

\* A call fails or the client goes away: a 500, or no response at all.
Fail(r) ==
    /\ Faults
    /\ place[r] \in InFlight
    /\ place' = [place EXCEPT ![r] = "idle"]
    /\ input' = [input EXCEPT ![r] = NoInput]
    /\ response' = None
    /\ UNCHANGED <<tables, mailed, drawn, failures>>

\* The only server is killed and started again; its memory is lost.
Restart ==
    /\ Faults
    /\ LockoutDriver = "memory"
    /\ failures' = [u \in Users |-> 0]
    /\ place' = [r \in Requests |-> "idle"]
    /\ input' = [r \in Requests |-> NoInput]
    /\ response' = None
    /\ UNCHANGED <<tables, mailed, drawn>>

Start(r) == StartSignup(r) \/ StartVerify(r) \/ StartLogin(r) \/ StartReset(r) \/ StartConfirm(r)

Handle(r) ==
    \/ CreateUser(r) \/ CreateVerification(r) \/ MailVerification(r) \/ SkipVerification(r)
    \/ SqliteConsumeVerification(r) \/ PgSelectVerification(r) \/ PgCommitVerification(r)
    \/ Locked(r) \/ LockedFailsOpen(r) \/ ReadUser(r) \/ ReadUserFails(r)
    \/ RecordFailure(r) \/ Reset(r) \/ LockoutLost(r) \/ IssueToken(r)
    \/ FindUser(r) \/ CreateReset(r) \/ MailReset(r)
    \/ SqliteConsumeReset(r) \/ PgSelectReset(r) \/ PgMarkUsed(r) \/ UpdatePassword(r)

Next ==
    \/ \E r \in Requests : Start(r) \/ Handle(r) \/ Fail(r)
    \/ \E u \in Users : AgeOut(u)
    \/ \E t \in Tokens : Expire(t)
    \/ Restart

Spec == Init /\ [][Next]_vars

\* Handlers that can run do, and time goes on.
Fairness == /\ \A r \in Requests : WF_vars(Handle(r))
            /\ \A u \in Users : WF_vars(AgeOut(u))

FairSpec == Spec /\ Fairness

-----------------------------------------------------------------------------
(***************************************************************************)
(* Properties                                                              *)
(***************************************************************************)

\* Tables, handlers and counters keep their shape.
AccountsTypeOK ==
    /\ accounts \in [Users -> Accounts \cup {None}]
    /\ apiTokens \subseteq Users
    /\ verifications \in [Tokens -> Verifications \cup {None}]
    /\ resets \in [Tokens -> Resets \cup {None}]
    /\ mailed \subseteq Tokens
    /\ drawn \subseteq Tokens
    /\ failures \in [Users -> Nat]
    /\ place \in [Requests -> InFlight \cup {"idle"}]
    /\ input \in [Requests -> Inputs]
    /\ response \in Responses \cup {None}

\* r sends the answer code in this step.
Answers(r, code) == /\ place[r] # "idle" /\ place'[r] = "idle"
                    /\ response' = [to |-> r, code |-> code]

\* What r's good answers say.
TrueAnswers(r) ==
    LET u == input[r].user
        t == input[r].token
    IN  /\ Answers(r, "created") => accounts'[u] # None
        /\ Answers(r, "token") => accounts'[u] # None /\ u \in apiTokens'
        /\ Answers(r, "verified") =>
               /\ verifications'[t] = None
               /\ accounts'[IF verifications[t] = None THEN u
                            ELSE verifications[t].user].verified
        /\ Answers(r, "reset") =>
               /\ resets'[t].status = "used"
               /\ accounts'[u].password = input[r].password

\* A good answer is true when it is sent, whatever other requests did while
\* this one was served, and whichever of two transactions that found the same
\* token came second: the account exists, its address is verified, the password
\* is the new one.
AnswersAreTrue == [][\A r \in Requests : TrueAnswers(r)]_vars

\* What may become of an account there is.
ProvenChange(u) ==
    /\ accounts'[u] # None
    /\ accounts'[u].email = accounts[u].email
    /\ accounts'[u].verified # accounts[u].verified =>
         \E t \in mailed : /\ verifications[t] # None /\ verifications[t].user = u
                           /\ verifications'[t] = None
    /\ accounts'[u].password # accounts[u].password =>
         \E r \in Requests : LET t == input[r].token IN
           /\ place[r] = "updatePassword" /\ place'[r] = "idle"
           /\ t \in mailed /\ resets[t].user = u /\ resets[t].status = "used"
           /\ accounts'[u].password = input[r].password

\* Once there is an account, its address becomes verified only when a token
\* mailed to it for that purpose is presented, and its password changes only to
\* the one that came with a mailed reset token of the account, consumed.
MailProves ==
    [][\A u \in Users : accounts[u] # None => ProvenChange(u)]_vars

\* "ConsumePasswordReset atomically validates and marks-used a reset token"
\* (store.go:144): no request is let through to set a password by a token that
\* let another one through before.
ResetTokensAreOneTime ==
    [][\A r \in Requests :
         place[r] # "updatePassword" /\ place'[r] = "updatePassword"
           => resets[input[r].token].status # "used"]_vars

\* Requests that got past the lockout and may still record a failure of u.
Trying(u) == {r \in Requests : place[r] \in {"readUser", "mismatched"} /\ input[r].user = u}

\* The lockout is checked before a password is compared and the failure is
\* recorded after it, so concurrent logins overshoot the limit, but never by
\* more than the requests that were being served with the last one let in.
FailuresBounded ==
    \A u \in Users :
        failures[u] + Cardinality(Trying(u)) <= MaxFailures - 1 + Cardinality(Requests)

\* "The lockout clears itself as old failures age out" (lockout.go:33), even while
\* logins to the locked account go on: being refused is not a failure.
LockoutEnds == \A u \in Users : failures[u] >= MaxFailures ~> failures[u] < MaxFailures

\* Password resets are one-time: this module is an implementation of
\* OneTimeTokens, where a token is spent when it is marked used and done when
\* its request has set the password or has failed.
password == [u \in Users |-> IF accounts[u] = None THEN None ELSE accounts[u].password]
owner == [t \in Tokens |-> IF resets[t] = None THEN None ELSE resets[t].user]
Holds(r, t) == place[r] = "updatePassword" /\ input[r].token = t
status == [t \in Tokens |->
    IF resets[t] = None THEN "new"
    ELSE IF resets[t].status # "used" THEN resets[t].status
    ELSE IF \E r \in Requests : Holds(r, t) THEN "spent" ELSE "done"]

OneTime == INSTANCE OneTimeTokens

ImplementsOneTimeTokens == OneTime!Spec
=============================================================================
