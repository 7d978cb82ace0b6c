---------------------------- MODULE AccountsProofs ----------------------------
(***************************************************************************)
(* Theorems about Accounts, for any number of requests, users, passwords   *)
(* and tokens.                                                             *)
(***************************************************************************)
EXTENDS Accounts, FiniteSetTheorems, TLAPS

-----------------------------------------------------------------------------
(***************************************************************************)
(* The inductive invariant                                                 *)
(***************************************************************************)

\* Places whose handler has drawn a token that nobody else has seen.
Drawing == SignupPlaces \cup ResetPlaces

\* Places whose handler was given a token by its client.
Presenting == VerifyPlaces \cup ConfirmPlaces

\* Places reached only after the account was seen, or made.
Seen == {"createVerification", "mailVerification", "commitVerification", "matched",
         "issueToken", "createReset", "mailReset", "markUsed", "updatePassword"}

\* A handler has the arguments its place calls for.
Shape ==
    \A r \in Requests :
        /\ place[r] \in Drawing => input[r].user \in Users /\ input[r].token \in Tokens
        /\ place[r] \in LoginPlaces => input[r].user \in Users
        /\ place[r] \in SignupPlaces => input[r].email \in Emails
        /\ place[r] \in SignupPlaces \cup ConfirmPlaces => input[r].password \in Passwords
        /\ place[r] \in Presenting => input[r].token \in mailed \cup {None}
        /\ place[r] \in Seen => input[r].user \in Users /\ accounts[input[r].user] # None
        /\ place[r] \in {"commitVerification", "markUsed"} => MetaDriver = "postgres"

\* A token is drawn by one handler, which alone knows it until it is mailed.
Fresh ==
    /\ mailed \subseteq drawn
    /\ \A t \in Tokens : resets[t] # None => t \in drawn
    /\ \A r \in Requests : place[r] \in Drawing => input[r].token \in drawn \ mailed
    /\ \A r, s \in Requests :
          place[r] \in Drawing /\ place[s] \in Drawing /\ input[r].token = input[s].token
              => r = s
    /\ \A r \in Requests : place[r] \in {"findUser", "createReset"} =>
          resets[input[r].token] = None

\* The tokens in the database belong to accounts.
Owned ==
    \A t \in Tokens :
        /\ verifications[t] # None => accounts[verifications[t].user] # None
        /\ resets[t] # None => accounts[resets[t].user] # None

\* A handler that consumes a token acts for the account it was issued for.
Bound ==
    \A r \in Requests : LET t == input[r].token IN
        /\ place[r] = "commitVerification" =>
              t # None /\ (verifications[t] # None => verifications[t].user = input[r].user)
        /\ place[r] \in {"markUsed", "updatePassword"} =>
              t # None /\ resets[t] # None /\ resets[t].user = input[r].user
        /\ place[r] = "updatePassword" => resets[t].status = "used"

\* A token that is gone before its transaction commits has done its work.
Proved ==
    \A r \in Requests :
        place[r] = "commitVerification" /\ verifications[input[r].token] = None
          => accounts[input[r].user].verified

\* Who is about to mark a token used does it for the first time, and a used token
\* has let one handler through.
Unshared ==
    /\ \A r \in Requests : place[r] = "markUsed" => resets[input[r].token].status # "used"
    /\ \A r, s \in Requests, t \in Tokens : Holds(r, t) /\ Holds(s, t) => r = s

\* The one transaction of SQLite sees to that.
OneHolder == MetaDriver = "sqlite" => Unshared

\* With Postgres nothing does.  Confirmations keep apart when no two of one token
\* are between the SELECT and the UPDATE at once.
ConfirmApart ==
    \A r, s \in Requests :
        place[r] = "markUsed" /\ place[s] = "markUsed" /\ input[r].token = input[s].token
            => r = s

\* A confirmation is in time when its token does not expire in between.
InTime == \A r \in Requests :
    place[r] = "markUsed" => resets[input[r].token].status # "expired"

Bounded == LockoutDriver = "memory" => FailuresBounded

IInv == AccountsTypeOK /\ Shape /\ Fresh /\ Owned /\ Bound /\ Proved /\ OneHolder /\ Bounded
-----------------------------------------------------------------------------
(***************************************************************************)
(* Types                                                                   *)
(***************************************************************************)

USE AccountsAssumption

\* None is none of the things it is told from.
LEMMA NoneIsNothing ==
  /\ None \notin Users /\ None \notin Passwords /\ None \notin Tokens /\ None \notin Requests
  /\ None \notin Accounts /\ None \notin Verifications /\ None \notin Resets
  /\ None \notin Responses
  BY AccountsNoneAssumption

USE NoneIsNothing

Places == InFlight \cup {"idle"}

HandlersOK == /\ place \in [Requests -> Places]
              /\ input \in [Requests -> Inputs]
              /\ response \in Responses \cup {None}

LEMMA NoInputOK == NoInput \in Inputs
  BY DEF NoInput, Inputs

\* What a handler does to its own variables keeps their types.
LEMMA GotoOK ==
  ASSUME HandlersOK, NEW r \in Requests, NEW STATE p, p \in Places, Goto(r, p)
  PROVE  HandlersOK'
  BY DEF HandlersOK, Goto

LEMMA ReplyOK ==
  ASSUME HandlersOK, NEW r \in Requests, NEW code \in Codes, Reply(r, code)
  PROVE  HandlersOK'
<1>1. place' \in [Requests -> Places] /\ input' \in [Requests -> Inputs]
  BY NoInputOK DEF HandlersOK, Reply, Places
<1>2. response' \in Responses
  BY DEF Reply, Responses
<1> QED  BY <1>1, <1>2 DEF HandlersOK

LEMMA GotoWithUserOK ==
  ASSUME HandlersOK, NEW r \in Requests, NEW STATE p, p \in Places, NEW STATE u, u \in Users,
         GotoWithUser(r, p, u)
  PROVE  HandlersOK'
<1>1. [input[r] EXCEPT !.user = u] \in Inputs
  BY DEF HandlersOK, Inputs
<1> QED  BY <1>1 DEF HandlersOK, GotoWithUser

LEMMA ArriveOK ==
  ASSUME HandlersOK, NEW r \in Requests, NEW STATE p, p \in Places, NEW STATE in, in \in Inputs,
         Arrive(r, p, in)
  PROVE  HandlersOK'
  BY DEF HandlersOK, Arrive
TablesOK == /\ accounts \in [Users -> Accounts \cup {None}]
            /\ apiTokens \subseteq Users
            /\ verifications \in [Tokens -> Verifications \cup {None}]
            /\ resets \in [Tokens -> Resets \cup {None}]
            /\ mailed \subseteq Tokens
            /\ drawn \subseteq Tokens
            /\ failures \in [Users -> Nat]

\* The sets of places, for the provers.
PlaceSets == Places = {"createUser", "createVerification", "mailVerification",
    "consumeVerification", "commitVerification", "locked", "readUser", "matched",
    "mismatched", "issueToken", "findUser", "createReset", "mailReset", "consumeReset",
    "markUsed", "updatePassword", "idle"}

LEMMA PlacesAre == PlaceSets
  BY DEF PlaceSets, Places, InFlight, SignupPlaces, VerifyPlaces, LoginPlaces, ResetPlaces,
     ConfirmPlaces

LEMMA TypesSplit == AccountsTypeOK <=> TablesOK /\ HandlersOK
  BY DEF AccountsTypeOK, TablesOK, HandlersOK, Places

\* An arriving request carries what its handler calls for.
LEMMA StartTypes ==
  ASSUME AccountsTypeOK, NEW r \in Requests, Start(r)
  PROVE  AccountsTypeOK'
<1>1. HandlersOK /\ TablesOK
  BY TypesSplit
<1>2. HandlersOK'
  <2>1. ASSUME NEW p \in Places, NEW in \in Inputs, Arrive(r, p, in)
        PROVE  HandlersOK'
    BY <2>1, <1>1, ArriveOK
  <2>2. \E p \in Places, in \in Inputs : Arrive(r, p, in)
    <3>1. CASE StartSignup(r)
      BY <3>1, PlacesAre, <1>1 DEF PlaceSets, StartSignup, Inputs
    <3>2. CASE StartVerify(r)
      BY <3>2, PlacesAre, <1>1 DEF PlaceSets, StartVerify, Inputs, NoInput, TablesOK
    <3>3. CASE StartLogin(r)
      BY <3>3, PlacesAre, <1>1 DEF PlaceSets, StartLogin, Inputs, NoInput
    <3>4. CASE StartReset(r)
      BY <3>4, PlacesAre, <1>1 DEF PlaceSets, StartReset, Inputs, NoInput
    <3>5. CASE StartConfirm(r)
      BY <3>5, PlacesAre, <1>1 DEF PlaceSets, StartConfirm, Inputs, NoInput, TablesOK
    <3> QED  BY <3>1, <3>2, <3>3, <3>4, <3>5 DEF Start
  <2> QED  BY <2>1, <2>2
<1>3. TablesOK'
  BY <1>1 DEF TablesOK, Start, StartSignup, StartVerify, StartLogin, StartReset, StartConfirm,
     Arrive, tables
<1> QED  BY <1>2, <1>3 DEF AccountsTypeOK, TablesOK, HandlersOK, Places

\* A handler's move is one of three.
Moves(r) == \/ \E code \in Codes : Reply(r, code)
            \/ \E p \in Places : Goto(r, p)
            \/ \E p \in Places, u \in Users : GotoWithUser(r, p, u)

LEMMA HandleMoves ==
  ASSUME AccountsTypeOK, NEW r \in Requests, Handle(r)
  PROVE  Moves(r)
<1> USE DEF Moves, Codes, PlaceSets
<1>1. CASE CreateUser(r) \/ CreateVerification(r) \/ MailVerification(r) \/ SkipVerification(r)
  BY <1>1, PlacesAre DEF CreateUser, CreateVerification, MailVerification, SkipVerification
<1>2. CASE SqliteConsumeVerification(r) \/ PgSelectVerification(r) \/ PgCommitVerification(r)
  <2>1. ASSUME NEW t, t = input[r].token, Verifiable(t)
        PROVE  verifications[t].user \in Users
    BY <2>1 DEF AccountsTypeOK, Inputs, Verifications, Verifiable
  <2> QED  BY <1>2, <2>1, PlacesAre DEF SqliteConsumeVerification, PgSelectVerification,
              PgCommitVerification, Verify
<1>3. CASE Locked(r) \/ LockedFailsOpen(r) \/ ReadUser(r) \/ ReadUserFails(r)
  BY <1>3, PlacesAre DEF Locked, LockedFailsOpen, ReadUser, ReadUserFails
<1>4. CASE RecordFailure(r) \/ Reset(r) \/ LockoutLost(r) \/ IssueToken(r)
  BY <1>4, PlacesAre DEF RecordFailure, Reset, LockoutLost, IssueToken
<1>5. CASE FindUser(r) \/ CreateReset(r) \/ MailReset(r)
  BY <1>5, PlacesAre DEF FindUser, CreateReset, MailReset
<1>6. CASE SqliteConsumeReset(r) \/ PgSelectReset(r) \/ PgMarkUsed(r) \/ UpdatePassword(r)
  <2>1. ASSUME NEW t, t = input[r].token, Usable(t)
        PROVE  resets[t].user \in Users
    BY <2>1 DEF AccountsTypeOK, Inputs, Resets, Usable
  <2> QED  BY <1>6, <2>1, PlacesAre DEF SqliteConsumeReset, PgSelectReset, PgMarkUsed,
              UpdatePassword
<1> QED  BY <1>1, <1>2, <1>3, <1>4, <1>5, <1>6 DEF Handle

\* What the UPDATEs of a user's row leave alone.
LEMMA RowVerified ==
  ASSUME NEW STATE a, a \in Accounts
  PROVE  LET b == [a EXCEPT !.verified = TRUE] IN
           b \in Accounts /\ b.email = a.email /\ b.password = a.password /\ b.verified
  BY DEF Accounts

LEMMA RowPassword ==
  ASSUME NEW STATE a, a \in Accounts, NEW STATE p, p \in Passwords
  PROVE  LET b == [a EXCEPT !.password = p] IN
           b \in Accounts /\ b.email = a.email /\ b.password = p /\ b.verified = a.verified
  BY DEF Accounts

LEMMA RowUsed ==
  ASSUME NEW STATE a, a \in Resets, NEW STATE s, s \in {"live", "expired", "used"}
  PROVE  LET b == [a EXCEPT !.status = s] IN
           b \in Resets /\ b.user = a.user /\ b.status = s
  BY DEF Resets

LEMMA RowExpired ==
  ASSUME NEW STATE a, a \in Verifications
  PROVE  LET b == [a EXCEPT !.expired = TRUE] IN
           b \in Verifications /\ b.user = a.user /\ b.expired
  BY DEF Verifications

\* What a step may do to the table of users.
UserAdded(r) ==
    /\ place[r] = "createUser"
    /\ accounts[input[r].user] = None
    /\ accounts' = [accounts EXCEPT ![input[r].user] =
          [email |-> input[r].email, password |-> input[r].password, verified |-> FALSE]]

LEMMA CreateUserEffect ==
  ASSUME AccountsTypeOK, Shape, NEW r \in Requests, CreateUser(r)
  PROVE  \/ /\ UserAdded(r) /\ Goto(r, "createVerification")
            /\ input[r].user \in Users /\ accounts'[input[r].user] \in Accounts
            /\ \A u \in Users \ {input[r].user} : accounts'[u] = accounts[u]
            /\ accounts' \in [Users -> Accounts \cup {None}]
         \/ accounts' = accounts /\ Reply(r, "conflict")
<1>1. place[r] \in SignupPlaces
  BY DEF CreateUser, At, SignupPlaces
<1>2. input[r].user \in Users /\ input[r].email \in Emails /\ input[r].password \in Passwords
  BY <1>1 DEF Shape, Drawing
<1> DEFINE row == [email |-> input[r].email, password |-> input[r].password, verified |-> FALSE]
<1>3. row \in Accounts
  BY <1>2 DEF Accounts
<1>4. CASE accounts' = accounts /\ Reply(r, "conflict")
  BY <1>4
<1>5. CASE /\ accounts[input[r].user] = None
           /\ accounts' = [accounts EXCEPT ![input[r].user] = row]
           /\ Goto(r, "createVerification")
  <2>1. UserAdded(r)
    BY <1>5 DEF UserAdded, CreateUser, At
  <2> HIDE DEF row
  <2>2. accounts'[input[r].user] \in Accounts /\ accounts' \in [Users -> Accounts \cup {None}]
        /\ \A u \in Users \ {input[r].user} : accounts'[u] = accounts[u]
    BY <1>2, <1>3, <1>5 DEF AccountsTypeOK
  <2> QED  BY <1>2, <1>5, <2>1, <2>2
<1> QED  BY <1>2, <1>4, <1>5 DEF CreateUser

LEMMA VerifyEffect ==
  ASSUME AccountsTypeOK, NEW r \in Requests, NEW STATE u, u \in Users, accounts[u] # None,
         Verify(r, u)
  PROVE  /\ accounts' \in [Users -> Accounts \cup {None}]
         /\ accounts'[u] \in Accounts
         /\ accounts'[u].email = accounts[u].email
         /\ accounts'[u].password = accounts[u].password
         /\ accounts'[u].verified
         /\ \A v \in Users \ {u} : accounts'[v] = accounts[v]
         /\ verifications' \in [Tokens -> Verifications \cup {None}]
         /\ \A t \in Tokens : verifications'[t] = verifications[t] \/ verifications'[t] = None
         /\ input[r].token \in Tokens => verifications'[input[r].token] = None
         /\ Reply(r, "verified")
<1>1. accounts[u] \in Accounts
  BY DEF AccountsTypeOK
<1> DEFINE row == [accounts[u] EXCEPT !.verified = TRUE]
<1>2. row \in Accounts /\ row.email = accounts[u].email /\ row.password = accounts[u].password
      /\ row.verified
  BY <1>1, RowVerified
<1>3. accounts' = [accounts EXCEPT ![u] = row]
  BY DEF Verify
<1> HIDE DEF row
<1>4. verifications' = [verifications EXCEPT ![input[r].token] = None] /\ Reply(r, "verified")
  BY DEF Verify
<1> QED  BY <1>2, <1>3, <1>4 DEF AccountsTypeOK

LEMMA UpdatePasswordEffect ==
  ASSUME AccountsTypeOK, Shape, NEW r \in Requests, UpdatePassword(r)
  PROVE  LET u == input[r].user IN
         /\ u \in Users /\ accounts[u] \in Accounts /\ input[r].password \in Passwords
         /\ accounts' \in [Users -> Accounts \cup {None}]
         /\ accounts'[u] \in Accounts
         /\ accounts'[u].email = accounts[u].email
         /\ accounts'[u].password = input[r].password
         /\ accounts'[u].verified = accounts[u].verified
         /\ \A v \in Users \ {u} : accounts'[v] = accounts[v]
<1> DEFINE u == input[r].user
<1>1. place[r] = "updatePassword"
  BY DEF UpdatePassword, At
<1>2. u \in Users /\ accounts[u] # None /\ input[r].password \in Passwords
  BY <1>1 DEF Shape, Seen, ConfirmPlaces
<1>3. accounts[u] \in Accounts
  BY <1>2 DEF AccountsTypeOK
<1> DEFINE row == [accounts[u] EXCEPT !.password = input[r].password]
<1>4. row \in Accounts /\ row.email = accounts[u].email /\ row.password = input[r].password
      /\ row.verified = accounts[u].verified
  BY <1>2, <1>3, RowPassword
<1>5. accounts' = [accounts EXCEPT ![u] = row]
  BY DEF UpdatePassword
<1> HIDE DEF row
<1> QED  BY <1>2, <1>3, <1>4, <1>5 DEF AccountsTypeOK

LEMMA MarkUsedEffect ==
  ASSUME AccountsTypeOK, NEW r \in Requests, input[r].token \in Tokens,
         resets[input[r].token] # None, MarkUsed(r)
  PROVE  LET t == input[r].token IN
         /\ resets' \in [Tokens -> Resets \cup {None}]
         /\ resets'[t] \in Resets
         /\ resets'[t].user = resets[t].user
         /\ resets'[t].status = "used"
         /\ \A x \in Tokens \ {t} : resets'[x] = resets[x]
<1> DEFINE t == input[r].token
<1>1. resets[t] \in Resets
  BY DEF AccountsTypeOK
<1> DEFINE row == [resets[t] EXCEPT !.status = "used"]
<1>2. row \in Resets /\ row.user = resets[t].user /\ row.status = "used"
  BY <1>1, RowUsed
<1>3. resets' = [resets EXCEPT ![t] = row]
  BY DEF MarkUsed
<1> HIDE DEF row
<1> QED  BY <1>2, <1>3 DEF AccountsTypeOK

LEMMA ExpireEffect ==
  ASSUME AccountsTypeOK, NEW t \in Tokens, Expire(t)
  PROVE  /\ resets' \in [Tokens -> Resets \cup {None}]
         /\ verifications' \in [Tokens -> Verifications \cup {None}]
         /\ \A x \in Tokens :
               /\ verifications'[x] = verifications[x]
                  \/ /\ verifications[x] # None /\ verifications'[x] # None
                     /\ verifications'[x].user = verifications[x].user
               /\ resets'[x] = resets[x]
                  \/ /\ resets[x] # None /\ resets[x].status = "live" /\ x = t
                     /\ resets'[x] # None /\ resets'[x].user = resets[x].user
                     /\ resets'[x].status = "expired"
<1>1. CASE /\ verifications[t] # None
           /\ verifications' = [verifications EXCEPT ![t].expired = TRUE]
           /\ UNCHANGED resets
  <2>1. verifications[t] \in Verifications
    BY <1>1 DEF AccountsTypeOK
  <2> DEFINE row == [verifications[t] EXCEPT !.expired = TRUE]
  <2>2. row \in Verifications /\ row.user = verifications[t].user
    BY <2>1, RowExpired
  <2>3. verifications' = [verifications EXCEPT ![t] = row]
    BY <1>1
  <2> HIDE DEF row
  <2>4. resets' = resets /\ verifications[t] # None
    BY <1>1
  <2>5. verifications' \in [Tokens -> Verifications \cup {None}]
    BY <2>2, <2>3 DEF AccountsTypeOK
  <2>6. verifications'[t] = row /\ \A x \in Tokens \ {t} : verifications'[x] = verifications[x]
    BY <2>3 DEF AccountsTypeOK
  <2> QED  BY <2>2, <2>4, <2>5, <2>6 DEF AccountsTypeOK
<1>2. CASE /\ resets[t] # None /\ resets[t].status = "live"
           /\ resets' = [resets EXCEPT ![t].status = "expired"]
           /\ UNCHANGED verifications
  <2>1. resets[t] \in Resets
    BY <1>2 DEF AccountsTypeOK
  <2> DEFINE row == [resets[t] EXCEPT !.status = "expired"]
  <2>2. row \in Resets /\ row.user = resets[t].user /\ row.status = "expired"
    BY <2>1, RowUsed
  <2>3. resets' = [resets EXCEPT ![t] = row]
    BY <1>2
  <2> HIDE DEF row
  <2> QED  BY <1>2, <2>1, <2>2, <2>3 DEF AccountsTypeOK
<1> QED  BY <1>1, <1>2 DEF Expire
-----------------------------------------------------------------------------
(***************************************************************************)
(* What every step does to the tables                                      *)
(***************************************************************************)

\* Accounts stay; a reset stays its user's, and used; a verification stays its
\* user's, unless it is made for a token nobody was mailed.
Grows ==
    /\ mailed \subseteq mailed'
    /\ drawn \subseteq drawn'
    /\ \A u \in Users : accounts[u] # None => accounts'[u] # None
    /\ \A t \in Tokens : resets[t] # None =>
          /\ resets'[t] # None
          /\ resets'[t].user = resets[t].user
          /\ resets[t].status = "used" => resets'[t].status = "used"
    /\ \A t \in mailed : verifications'[t] # None =>
          verifications[t] # None /\ verifications'[t].user = verifications[t].user

\* No table is touched.
LEMMA SameTables ==
  ASSUME TablesOK, UNCHANGED <<tables, mailed>>, drawn \subseteq drawn', drawn' \subseteq Tokens,
         failures' \in [Users -> Nat]
  PROVE  TablesOK' /\ Grows
  BY DEF TablesOK, tables, Grows

\* A token is inserted into one of the two tables.
LEMMA CreateVerificationGrows ==
  ASSUME AccountsTypeOK, Shape, Fresh, NEW r \in Requests, CreateVerification(r)
  PROVE  TablesOK' /\ Grows
<1>1. place[r] \in Drawing
  BY DEF CreateVerification, At, Drawing, SignupPlaces
<1>2. input[r].user \in Users /\ input[r].token \in Tokens /\ input[r].token \notin mailed
  BY <1>1 DEF Shape, Fresh
<1> DEFINE row == [user |-> input[r].user, expired |-> FALSE]
<1>3. row \in Verifications
  BY <1>2 DEF Verifications
<1>4. /\ verifications' = [verifications EXCEPT ![input[r].token] = row]
      /\ UNCHANGED <<accounts, apiTokens, resets, mailed, drawn, failures>>
  BY DEF CreateVerification
<1> HIDE DEF row
<1> QED  BY <1>2, <1>3, <1>4 DEF AccountsTypeOK, TablesOK, Grows

LEMMA CreateResetGrows ==
  ASSUME AccountsTypeOK, Shape, Fresh, NEW r \in Requests, CreateReset(r)
  PROVE  TablesOK' /\ Grows
<1>1. place[r] \in Drawing /\ place[r] = "createReset"
  BY DEF CreateReset, At, Drawing, ResetPlaces
<1>2. input[r].user \in Users /\ input[r].token \in Tokens /\ resets[input[r].token] = None
  BY <1>1 DEF Shape, Fresh
<1> DEFINE row == [user |-> input[r].user, status |-> "live"]
<1>3. row \in Resets
  BY <1>2 DEF Resets
<1>4. /\ resets' = [resets EXCEPT ![input[r].token] = row]
      /\ UNCHANGED <<accounts, apiTokens, verifications, mailed, drawn, failures>>
  BY DEF CreateReset
<1> HIDE DEF row
<1> QED  BY <1>2, <1>3, <1>4 DEF AccountsTypeOK, TablesOK, Grows

LEMMA VerifyGrows ==
  ASSUME AccountsTypeOK, NEW r \in Requests, NEW STATE u, u \in Users, accounts[u] # None,
         Verify(r, u), UNCHANGED <<apiTokens, resets, mailed, drawn, failures>>
  PROVE  TablesOK' /\ Grows
  BY VerifyEffect DEF AccountsTypeOK, TablesOK, Grows

LEMMA MarkUsedGrows ==
  ASSUME AccountsTypeOK, NEW r \in Requests, input[r].token \in Tokens,
         resets[input[r].token] # None, MarkUsed(r),
         UNCHANGED <<accounts, apiTokens, verifications, mailed, drawn, failures>>
  PROVE  TablesOK' /\ Grows
  BY MarkUsedEffect DEF AccountsTypeOK, TablesOK, Grows

\* The owner of a token that is presented has an account.
LEMMA TokensKnown ==
  ASSUME AccountsTypeOK, Owned, NEW r \in Requests, NEW t, t = input[r].token
  PROVE  /\ Verifiable(t) => /\ t \in Tokens /\ verifications[t] # None
                             /\ verifications[t].user \in Users
                             /\ accounts[verifications[t].user] # None
         /\ Usable(t) => /\ t \in Tokens /\ resets[t] # None
                         /\ resets[t].user \in Users
                         /\ accounts[resets[t].user] # None
                         /\ resets[t].status = "live"
<1>1. t \in Tokens \cup {None}
  BY DEF AccountsTypeOK, Inputs
<1> QED  BY <1>1 DEF Verifiable, Usable, AccountsTypeOK, Owned, Verifications, Resets

LEMMA TablesGrow ==
  ASSUME AccountsTypeOK, Shape, Fresh, Owned, Bound, [Next]_vars
  PROVE  TablesOK' /\ Grows
<1> USE DEF tables
<1>0. TablesOK
  BY TypesSplit
<1>1. ASSUME NEW r \in Requests, Start(r)
      PROVE  TablesOK' /\ Grows
  BY <1>0, <1>1, SameTables DEF Start, StartSignup, StartVerify, StartLogin, StartReset,
     StartConfirm, Arrive, TablesOK
<1>2. ASSUME NEW r \in Requests, Handle(r)
      PROVE  TablesOK' /\ Grows
  <2>1. CASE CreateUser(r)
    BY <1>0, <2>1, CreateUserEffect DEF CreateUser, TablesOK, Grows, UserAdded
  <2>2. CASE CreateVerification(r)
    BY <2>2, CreateVerificationGrows
  <2>3. CASE MailVerification(r) \/ MailReset(r)
    BY <1>0, <2>3 DEF MailVerification, MailReset, At, Shape, Drawing, SignupPlaces, ResetPlaces,
       TablesOK, Grows
  <2>4. CASE SkipVerification(r)
    BY <1>0, <2>4, SameTables DEF SkipVerification, TablesOK
  <2>5. CASE SqliteConsumeVerification(r)
    BY <1>0, <2>5, TokensKnown, VerifyGrows, SameTables DEF SqliteConsumeVerification, TablesOK
  <2>6. CASE PgSelectVerification(r) \/ PgSelectReset(r)
    BY <1>0, <2>6, SameTables DEF PgSelectVerification, PgSelectReset, TablesOK
  <2>7. CASE PgCommitVerification(r)
    BY <2>7, VerifyGrows DEF PgCommitVerification, At, Shape, Seen
  <2>8. CASE Locked(r) \/ LockedFailsOpen(r) \/ ReadUser(r) \/ ReadUserFails(r) \/ LockoutLost(r)
    BY <1>0, <2>8, SameTables DEF Locked, LockedFailsOpen, ReadUser, ReadUserFails, LockoutLost,
       TablesOK
  <2>9. CASE RecordFailure(r) \/ Reset(r)
    BY <1>0, <2>9, SameTables DEF RecordFailure, Reset, TablesOK
  <2>10. CASE IssueToken(r)
    BY <1>0, <2>10 DEF IssueToken, At, Shape, LoginPlaces, TablesOK, Grows
  <2>11. CASE FindUser(r)
    BY <1>0, <2>11, SameTables DEF FindUser, TablesOK
  <2>12. CASE CreateReset(r)
    BY <2>12, CreateResetGrows
  <2>13. CASE SqliteConsumeReset(r)
    BY <1>0, <2>13, TokensKnown, MarkUsedGrows, SameTables DEF SqliteConsumeReset, TablesOK
  <2>14. CASE PgMarkUsed(r)
    <3>1. input[r].token \in Tokens /\ resets[input[r].token] # None
      BY <2>14 DEF PgMarkUsed, At, Bound, AccountsTypeOK, Inputs
    <3> QED  BY <2>14, <3>1, MarkUsedGrows DEF PgMarkUsed
  <2>15. CASE UpdatePassword(r)
    <3>1. /\ accounts' \in [Users -> Accounts \cup {None}]
          /\ \A u \in Users : accounts[u] # None => accounts'[u] # None
      BY <2>15, UpdatePasswordEffect
    <3> QED  BY <1>0, <2>15, <3>1 DEF UpdatePassword, TablesOK, Grows
  <2> QED  BY <1>2, <2>1, <2>2, <2>3, <2>4, <2>5, <2>6, <2>7, <2>8, <2>9, <2>10, <2>11, <2>12,
              <2>13, <2>14, <2>15 DEF Handle
<1>3. ASSUME NEW r \in Requests, Fail(r)
      PROVE  TablesOK' /\ Grows
  BY <1>0, <1>3, SameTables DEF Fail, TablesOK
<1>4. ASSUME NEW u \in Users, AgeOut(u)
      PROVE  TablesOK' /\ Grows
  BY <1>0, <1>4, SameTables DEF AgeOut, TablesOK
<1>5. ASSUME NEW t \in Tokens, Expire(t)
      PROVE  TablesOK' /\ Grows
  BY <1>0, <1>5, ExpireEffect DEF Expire, TablesOK, Grows
<1>6. CASE Restart
  BY <1>0, <1>6, SameTables DEF Restart, TablesOK
<1>7. CASE UNCHANGED vars
  BY <1>0, <1>7, SameTables DEF vars, TablesOK
<1> QED  BY <1>1, <1>2, <1>3, <1>4, <1>5, <1>6, <1>7 DEF Next
-----------------------------------------------------------------------------
(***************************************************************************)
(* What every step does to the handlers                                    *)
(***************************************************************************)

\* Nobody's handler but r's moves.
OthersStay(r) == \A s \in Requests \ {r} : place'[s] = place[s] /\ input'[s] = input[s]

Stop(r) == place'[r] = "idle" /\ OthersStay(r)

LEMMA MovesAre ==
  ASSUME HandlersOK, NEW r \in Requests
  PROVE  /\ \A p, in : Arrive(r, p, in) =>
               place[r] = "idle" /\ place'[r] = p /\ input'[r] = in /\ OthersStay(r)
         /\ \A p : Goto(r, p) => place'[r] = p /\ input'[r] = input[r] /\ OthersStay(r)
         /\ \A code : Reply(r, code) => Stop(r)
         /\ \A p, u : GotoWithUser(r, p, u) =>
               place'[r] = p /\ input'[r] = [input[r] EXCEPT !.user = u] /\ OthersStay(r)
         /\ Fail(r) => Stop(r)
  BY DEF HandlersOK, Arrive, Goto, Reply, GotoWithUser, Fail, OthersStay, Stop

LEMMA HandlersStep ==
  ASSUME AccountsTypeOK, [Next]_vars
  PROVE  /\ HandlersOK'
         /\ \/ \E r \in Requests : Start(r) \/ Handle(r) \/ Fail(r)
            \/ UNCHANGED <<place, input>>
            \/ Restart
<1>0. HandlersOK
  BY TypesSplit
<1>1. ASSUME NEW r \in Requests, Start(r)
      PROVE  HandlersOK'
  BY <1>1, StartTypes, TypesSplit DEF AccountsTypeOK, HandlersOK, Places
<1>2. ASSUME NEW r \in Requests, Handle(r)
      PROVE  HandlersOK'
  BY <1>0, <1>2, HandleMoves, ReplyOK, GotoOK, GotoWithUserOK DEF Moves
<1>3. ASSUME NEW r \in Requests, Fail(r)
      PROVE  HandlersOK'
  BY <1>0, <1>3, NoInputOK DEF Fail, HandlersOK, Places
<1>4. CASE Restart
  BY <1>4, NoInputOK DEF Restart, HandlersOK, Places
<1>5. CASE \/ \E u \in Users : AgeOut(u)
           \/ \E t \in Tokens : Expire(t)
           \/ UNCHANGED vars
  BY <1>0, <1>5 DEF AgeOut, Expire, vars, HandlersOK
<1> QED  BY <1>1, <1>2, <1>3, <1>4, <1>5 DEF Next, AgeOut, Expire, vars

\* Where r's handler goes, keeping its input ...
Continues(r) ==
    /\ input'[r] = input[r]
    /\ \/ /\ place[r] = "createUser" /\ place'[r] = "createVerification"
          /\ accounts'[input[r].user] # None
       \/ place[r] = "createVerification" /\ place'[r] = "mailVerification"
       \/ place[r] = "locked" /\ place'[r] = "readUser"
       \/ place[r] = "readUser" /\ place'[r] = "mismatched"
       \/ /\ place[r] = "readUser" /\ place'[r] = "matched"
          /\ accounts[input[r].user] # None
       \/ place[r] = "matched" /\ place'[r] = "issueToken"
       \/ /\ place[r] = "findUser" /\ place'[r] = "createReset"
          /\ accounts[input[r].user] # None
          /\ UNCHANGED resets
       \/ place[r] = "createReset" /\ place'[r] = "mailReset"
       \/ /\ place[r] = "markUsed" /\ place'[r] = "updatePassword"
          /\ resets'[input[r].token].status = "used"

\* ... or with the owner of the token it was given.
FindsOwner(r) ==
    LET t == input[r].token IN
    \/ /\ place[r] = "consumeVerification" /\ place'[r] = "commitVerification"
       /\ MetaDriver = "postgres"
       /\ Verifiable(t) /\ UNCHANGED <<verifications, resets, accounts>>
       /\ input'[r] = [input[r] EXCEPT !.user = verifications[t].user]
    \/ /\ place[r] = "consumeReset" /\ place'[r] = "markUsed"
       /\ MetaDriver = "postgres"
       /\ Usable(t) /\ UNCHANGED <<verifications, resets, accounts>>
       /\ input'[r] = [input[r] EXCEPT !.user = resets[t].user]
    \/ /\ place[r] = "consumeReset" /\ place'[r] = "updatePassword"
       /\ MetaDriver = "sqlite"
       /\ Usable(t) /\ UNCHANGED <<verifications, accounts>>
       /\ resets'[t].status = "used"
       /\ input'[r] = [input[r] EXCEPT !.user = resets[t].user]

\* The three ways a handler moves, and that it draws nothing.
LEMMA HandleIs ==
  ASSUME AccountsTypeOK, Shape, Fresh, Owned, Bound, NEW r \in Requests, Handle(r)
  PROVE  /\ OthersStay(r)
         /\ Stop(r) \/ Continues(r) \/ FindsOwner(r)
         /\ drawn' = drawn
         /\ \/ mailed' = mailed
            \/ Stop(r) /\ place[r] \in Drawing /\ mailed' = mailed \cup {input[r].token}
<1>0. HandlersOK
  BY TypesSplit
<1> USE <1>0, MovesAre DEF Stop, At, tables
<1>1. CASE CreateUser(r)
  BY <1>1, CreateUserEffect DEF CreateUser, Continues
<1>2. CASE CreateVerification(r)
  BY <1>2 DEF CreateVerification, Continues
<1>3. CASE MailVerification(r) \/ MailReset(r)
  BY <1>3 DEF MailVerification, MailReset, Drawing, SignupPlaces, ResetPlaces
<1>4. CASE SkipVerification(r)
  BY <1>4 DEF SkipVerification
<1>5. CASE SqliteConsumeVerification(r)
  BY <1>5 DEF SqliteConsumeVerification, Verify
<1>6. CASE PgSelectVerification(r)
  BY <1>6 DEF PgSelectVerification, FindsOwner
<1>7. CASE PgCommitVerification(r)
  BY <1>7 DEF PgCommitVerification, Verify
<1>8. CASE Locked(r) \/ LockedFailsOpen(r)
  BY <1>8 DEF Locked, LockedFailsOpen, Continues
<1>9. CASE ReadUser(r) \/ ReadUserFails(r)
  BY <1>9 DEF ReadUser, ReadUserFails, Continues
<1>10. CASE RecordFailure(r) \/ Reset(r) \/ LockoutLost(r)
  BY <1>10 DEF RecordFailure, Reset, LockoutLost, Continues
<1>11. CASE IssueToken(r)
  BY <1>11 DEF IssueToken
<1>12. CASE FindUser(r)
  BY <1>12 DEF FindUser, Continues
<1>13. CASE CreateReset(r)
  BY <1>13 DEF CreateReset, Continues
<1>14. CASE SqliteConsumeReset(r)
  BY <1>14, TokensKnown, MarkUsedEffect DEF SqliteConsumeReset, FindsOwner
<1>15. CASE PgSelectReset(r)
  BY <1>15 DEF PgSelectReset, FindsOwner
<1>16. CASE PgMarkUsed(r)
  <2>1. input[r].token \in Tokens /\ resets[input[r].token] # None
    BY <1>16 DEF PgMarkUsed, Bound, AccountsTypeOK, Inputs
  <2> QED  BY <1>16, <2>1, MarkUsedEffect DEF PgMarkUsed, Continues
<1>17. CASE UpdatePassword(r)
  BY <1>17 DEF UpdatePassword
<1> QED  BY <1>1, <1>2, <1>3, <1>4, <1>5, <1>6, <1>7, <1>8, <1>9, <1>10, <1>11, <1>12, <1>13,
            <1>14, <1>15, <1>16, <1>17 DEF Handle

\* What an arriving request carries.
Arrives(r) ==
    /\ place[r] = "idle"
    /\ UNCHANGED <<tables, mailed, failures>>
    /\ \/ /\ place'[r] = "createUser"
          /\ input'[r].user \in Users /\ input'[r].email \in Emails
          /\ input'[r].password \in Passwords
          /\ input'[r].token \in Tokens \ drawn /\ drawn' = drawn \cup {input'[r].token}
       \/ /\ place'[r] = "findUser"
          /\ input'[r].user \in Users
          /\ input'[r].token \in Tokens \ drawn /\ drawn' = drawn \cup {input'[r].token}
       \/ place'[r] = "locked" /\ input'[r].user \in Users /\ drawn' = drawn
       \/ /\ place'[r] = "consumeVerification"
          /\ input'[r].token \in mailed \cup {None} /\ drawn' = drawn
       \/ /\ place'[r] = "consumeReset" /\ input'[r].password \in Passwords
          /\ input'[r].token \in mailed \cup {None} /\ drawn' = drawn

LEMMA StartIs ==
  ASSUME AccountsTypeOK, NEW r \in Requests, Start(r)
  PROVE  Arrives(r) /\ OthersStay(r)
<1>0. HandlersOK
  BY TypesSplit
<1>1. \E p, in : Arrive(r, p, in)
  BY DEF Start, StartSignup, StartVerify, StartLogin, StartReset, StartConfirm
<1>2. OthersStay(r) /\ place[r] = "idle" /\ UNCHANGED <<tables, mailed, failures>>
  BY <1>0, <1>1, MovesAre DEF Arrive
<1>3. CASE StartSignup(r)
  BY <1>0, <1>2, <1>3, MovesAre DEF StartSignup, Arrives
<1>4. CASE StartVerify(r)
  BY <1>0, <1>2, <1>4, MovesAre DEF StartVerify, Arrives, NoInput
<1>5. CASE StartLogin(r)
  <2>1. PICK u \in Users, p \in Passwords :
          /\ Arrive(r, "locked", [NoInput EXCEPT !.user = u, !.password = p])
          /\ drawn' = drawn
    BY <1>5 DEF StartLogin
  <2>2. place'[r] = "locked" /\ input'[r] = [NoInput EXCEPT !.user = u, !.password = p]
    BY <1>0, <2>1, MovesAre
  <2> QED  BY <1>2, <2>1, <2>2 DEF Arrives, NoInput
<1>6. CASE StartReset(r)
  <2>1. PICK u \in Users, t \in Tokens \ drawn :
          /\ Arrive(r, "findUser", [NoInput EXCEPT !.user = u, !.token = t])
          /\ drawn' = drawn \cup {t}
    BY <1>6 DEF StartReset
  <2>2. place'[r] = "findUser" /\ input'[r] = [NoInput EXCEPT !.user = u, !.token = t]
    BY <1>0, <2>1, MovesAre
  <2> QED  BY <1>2, <2>1, <2>2 DEF Arrives, NoInput
<1>7. CASE StartConfirm(r)
  <2>1. PICK t \in mailed \cup {None}, p \in Passwords :
          /\ Arrive(r, "consumeReset", [NoInput EXCEPT !.token = t, !.password = p])
          /\ drawn' = drawn
    BY <1>7 DEF StartConfirm
  <2>2. place'[r] = "consumeReset" /\ input'[r] = [NoInput EXCEPT !.token = t, !.password = p]
    BY <1>0, <2>1, MovesAre
  <2> QED  BY <1>2, <2>1, <2>2 DEF Arrives, NoInput
<1> QED  BY <1>3, <1>4, <1>5, <1>6, <1>7 DEF Start
LEMMA OwnerSet ==
  ASSUME NEW STATE in, in \in Inputs, NEW STATE u, u \in Users
  PROVE  LET new == [in EXCEPT !.user = u] IN
           new.user = u /\ new.token = in.token /\ new.password = in.password
  BY DEF Inputs

\* A step moves one handler, or none, or stops all.
OneMoves(r) ==
    /\ r \in Requests
    /\ OthersStay(r)
    /\ \/ Arrives(r)
       \/ Stop(r) /\ drawn' = drawn
             /\ \/ mailed' = mailed
                \/ place[r] \in Drawing /\ mailed' = mailed \cup {input[r].token}
       \/ Continues(r) /\ UNCHANGED <<drawn, mailed>>
       \/ /\ FindsOwner(r) /\ UNCHANGED <<drawn, mailed>>
          /\ input'[r].token = input[r].token /\ input'[r].password = input[r].password
          /\ input'[r].user \in Users /\ accounts[input'[r].user] # None

AllStop == /\ \A r \in Requests : place'[r] = "idle"
           /\ UNCHANGED <<drawn, mailed>>

NoneMoves == UNCHANGED <<place, input, drawn, mailed>>

LEMMA HandleMovesOne ==
  ASSUME AccountsTypeOK, Shape, Fresh, Owned, Bound, NEW r \in Requests, Handle(r)
  PROVE  OneMoves(r)
<1>1. ASSUME FindsOwner(r)
      PROVE  /\ input'[r].token = input[r].token /\ input'[r].password = input[r].password
             /\ input'[r].user \in Users /\ accounts[input'[r].user] # None
  <2>1. PICK u \in Users : input'[r] = [input[r] EXCEPT !.user = u] /\ accounts[u] # None
    BY <1>1, TokensKnown DEF FindsOwner
  <2> QED  BY <2>1, TypesSplit, OwnerSet DEF HandlersOK
<1>2. OthersStay(r) /\ drawn' = drawn
  BY HandleIs
<1>3. CASE Stop(r)
  BY <1>2, <1>3, HandleIs DEF OneMoves
<1>4. ASSUME ~Stop(r)
      PROVE  mailed' = mailed /\ (Continues(r) \/ FindsOwner(r))
  BY <1>4, HandleIs
<1> QED  BY <1>1, <1>2, <1>3, <1>4 DEF OneMoves

LEMMA StepIs ==
  ASSUME AccountsTypeOK, Shape, Fresh, Owned, Bound, [Next]_vars
  PROVE  (\E r \in Requests : OneMoves(r)) \/ AllStop \/ NoneMoves
<1>0. HandlersOK
  BY TypesSplit
<1>1. ASSUME NEW r \in Requests, Start(r)
      PROVE  OneMoves(r)
  BY <1>1, StartIs DEF OneMoves
<1>2. ASSUME NEW r \in Requests, Handle(r)
      PROVE  OneMoves(r)
  BY <1>2, HandleMovesOne
<1>3. ASSUME NEW r \in Requests, Fail(r)
      PROVE  OneMoves(r)
  BY <1>0, <1>3, MovesAre DEF OneMoves, Stop, Fail
<1>4. CASE Restart
  BY <1>4 DEF Restart, AllStop
<1>5. CASE \/ \E u \in Users : AgeOut(u)
           \/ \E t \in Tokens : Expire(t)
           \/ UNCHANGED vars
  BY <1>5 DEF AgeOut, Expire, vars, NoneMoves
<1> QED  BY <1>1, <1>2, <1>3, <1>4, <1>5 DEF Next
\* Tokens get into the tables from the handlers that drew them.
NewRows ==
    \A t \in Tokens :
        /\ resets'[t] # None => \/ resets[t] # None
                                \/ \E r \in Requests :
                                      /\ place[r] = "createReset" /\ place'[r] = "mailReset"
                                      /\ t = input[r].token
                                      /\ resets'[t].user = input[r].user
        /\ verifications'[t] # None =>
              \/ verifications[t] # None /\ verifications'[t].user = verifications[t].user
              \/ \E r \in Requests : /\ place[r] = "createVerification"
                                     /\ t = input[r].token
                                     /\ verifications'[t].user = input[r].user

LEMMA NewRowsStep ==
  ASSUME AccountsTypeOK, Shape, Fresh, Owned, Bound, [Next]_vars
  PROVE  NewRows
<1>0. HandlersOK /\ TablesOK
  BY TypesSplit
<1> USE DEF tables
<1>1. ASSUME UNCHANGED <<resets, verifications>>
      PROVE  NewRows
  BY <1>1 DEF NewRows
<1>2. ASSUME NEW r \in Requests, NEW u \in Users, accounts[u] # None, Verify(r, u),
             UNCHANGED resets
      PROVE  NewRows
  BY <1>2, VerifyEffect DEF NewRows
<1>3. ASSUME NEW r \in Requests, input[r].token \in Tokens, resets[input[r].token] # None,
             MarkUsed(r), UNCHANGED verifications
      PROVE  NewRows
  BY <1>3, MarkUsedEffect DEF NewRows
<1>4. ASSUME NEW r \in Requests, Start(r)
      PROVE  NewRows
  BY <1>1, <1>4, StartIs DEF Arrives
<1>5. ASSUME NEW r \in Requests, Handle(r)
      PROVE  NewRows
  <2>1. CASE CreateVerification(r)
    BY <1>0, <2>1 DEF CreateVerification, At, TablesOK, NewRows
  <2>2. CASE CreateReset(r)
    BY <1>0, <2>2, MovesAre DEF CreateReset, At, TablesOK, NewRows
  <2>3. CASE SqliteConsumeVerification(r)
    BY <1>1, <1>2, <2>3, TokensKnown DEF SqliteConsumeVerification
  <2>4. CASE PgCommitVerification(r)
    BY <1>2, <2>4 DEF PgCommitVerification, At, Shape, Seen
  <2>5. CASE SqliteConsumeReset(r)
    BY <1>1, <1>3, <2>5, TokensKnown DEF SqliteConsumeReset
  <2>6. CASE PgMarkUsed(r)
    <3>1. input[r].token \in Tokens /\ resets[input[r].token] # None
      BY <2>6 DEF PgMarkUsed, At, Bound, AccountsTypeOK, Inputs
    <3> QED  BY <1>3, <2>6, <3>1 DEF PgMarkUsed
  <2>7. CASE \/ CreateUser(r) \/ MailVerification(r) \/ SkipVerification(r)
             \/ PgSelectVerification(r) \/ Locked(r) \/ LockedFailsOpen(r) \/ ReadUser(r)
             \/ ReadUserFails(r) \/ RecordFailure(r) \/ Reset(r) \/ LockoutLost(r)
             \/ IssueToken(r) \/ FindUser(r) \/ MailReset(r) \/ PgSelectReset(r)
             \/ UpdatePassword(r)
    BY <1>1, <2>7 DEF CreateUser, MailVerification, SkipVerification, PgSelectVerification,
       Locked, LockedFailsOpen, ReadUser, ReadUserFails, RecordFailure, Reset, LockoutLost,
       IssueToken, FindUser, MailReset, PgSelectReset, UpdatePassword
  <2> QED  BY <1>5, <2>1, <2>2, <2>3, <2>4, <2>5, <2>6, <2>7 DEF Handle
<1>6. ASSUME NEW t \in Tokens, Expire(t)
      PROVE  NewRows
  BY <1>6, ExpireEffect DEF NewRows
<1>7. CASE \/ \E r \in Requests : Fail(r)
           \/ \E u \in Users : AgeOut(u)
           \/ Restart
           \/ UNCHANGED vars
  BY <1>1, <1>7 DEF Fail, AgeOut, Restart, vars
<1> QED  BY <1>4, <1>5, <1>6, <1>7 DEF Next
-----------------------------------------------------------------------------
(***************************************************************************)
(* The invariant is inductive                                              *)
(***************************************************************************)

LEMMA ShapeStep ==
  ASSUME AccountsTypeOK, Shape, Fresh, Owned, Bound, [Next]_vars
  PROVE  Shape'
<1>1. Grows /\ ((\E r \in Requests : OneMoves(r)) \/ AllStop \/ NoneMoves)
  BY StepIs, TablesGrow
<1> USE DEF Shape, PlaceSets, Drawing, Presenting, Seen, SignupPlaces, VerifyPlaces, LoginPlaces,
            ResetPlaces, ConfirmPlaces
<1>2. CASE NoneMoves
  BY <1>1, <1>2 DEF NoneMoves, Grows
<1>3. CASE AllStop
  BY <1>1, <1>3 DEF AllStop
<1>4. ASSUME NEW r \in Requests, OneMoves(r)
      PROVE  Shape'
  <2>1. CASE Arrives(r)
    BY <1>1, <1>4, <2>1 DEF OneMoves, Arrives, OthersStay, Grows
  <2>2. CASE Stop(r)
    BY <1>1, <1>4, <2>2 DEF OneMoves, Stop, OthersStay, Grows
  <2>3. CASE Continues(r)
    BY <1>1, <1>4, <2>3 DEF OneMoves, Continues, OthersStay, Grows
  <2>4. CASE FindsOwner(r)
    <3>1. /\ place'[r] \in {"commitVerification", "markUsed", "updatePassword"}
          /\ place[r] \in Presenting
          /\ place'[r] \in {"commitVerification", "markUsed"} => MetaDriver = "postgres"
          /\ place'[r] # "commitVerification" => place[r] = "consumeReset"
      BY <2>4 DEF FindsOwner
    <3>2. /\ input'[r].token = input[r].token /\ input'[r].password = input[r].password
          /\ input'[r].user \in Users /\ accounts'[input'[r].user] # None
      BY <1>1, <1>4, <3>1 DEF OneMoves, Arrives, Stop, Continues, Grows
    <3> QED  BY <1>1, <1>4, <3>1, <3>2 DEF OneMoves, OthersStay, Grows
  <2> QED  BY <1>4, <2>1, <2>2, <2>3, <2>4 DEF OneMoves
<1> QED  BY <1>1, <1>2, <1>3, <1>4

\* Who has a token that nobody was mailed.
LEMMA DrawingStep ==
  ASSUME AccountsTypeOK, Shape, Fresh, Owned, Bound, [Next]_vars,
         NEW s \in Requests, place'[s] \in Drawing
  PROVE  /\ input'[s].token \in drawn' \ mailed'
         /\ input'[s].token \in Tokens
         /\ \/ place[s] \in Drawing /\ input'[s].token = input[s].token
            \/ input'[s].token \notin drawn /\ OneMoves(s) /\ Arrives(s)
         /\ place'[s] = "findUser" => place[s] \in {"findUser", "idle"}
         /\ place'[s] = "createReset" => place[s] \in {"findUser", "createReset"}
<1>1. (\E r \in Requests : OneMoves(r)) \/ AllStop \/ NoneMoves
  BY StepIs
<1>2. mailed \subseteq drawn /\ drawn \subseteq Tokens
  BY DEF Fresh, AccountsTypeOK
<1>3. place[s] \in Drawing => input[s].token \in drawn \ mailed
  BY DEF Fresh
<1>4. CASE NoneMoves
  BY <1>2, <1>3, <1>4 DEF NoneMoves, Drawing, SignupPlaces, ResetPlaces
<1>5. CASE AllStop
  BY <1>5 DEF AllStop, Drawing, SignupPlaces, ResetPlaces
<1>6. CASE OneMoves(s)
  BY <1>2, <1>3, <1>6 DEF OneMoves, Arrives, Stop, Continues, FindsOwner,
     Drawing, SignupPlaces, ResetPlaces
<1>7. ASSUME NEW r \in Requests, r # s, OneMoves(r)
      PROVE  /\ place'[s] = place[s] /\ input'[s].token = input[s].token
             /\ input[s].token \in drawn' \ mailed'
  <2>1. place'[s] = place[s] /\ input'[s] = input[s] /\ place[s] \in Drawing
    BY <1>7 DEF OneMoves, OthersStay
  <2>2. drawn \subseteq drawn' /\ (mailed' # mailed => place[r] \in Drawing
                                        /\ mailed' = mailed \cup {input[r].token})
    BY <1>7 DEF OneMoves, Arrives
  <2>3. place[r] \in Drawing => input[r].token # input[s].token
    BY <1>7, <2>1 DEF Fresh
  <2> QED  BY <1>3, <2>1, <2>2, <2>3
<1>8. CASE \E r \in Requests : r # s /\ OneMoves(r)
  <2>1. /\ place'[s] = place[s] /\ input'[s].token = input[s].token
        /\ input[s].token \in drawn' \ mailed'
    BY <1>7, <1>8
  <2>2. input[s].token \in Tokens
    BY <1>2, <1>3, <2>1
  <2> QED  BY <2>1, <2>2 DEF Drawing
<1> QED  BY <1>1, <1>4, <1>5, <1>6, <1>8

LEMMA FreshStep ==
  ASSUME AccountsTypeOK, Shape, Fresh, Owned, Bound, [Next]_vars
  PROVE  Fresh'
<1>1. NewRows
  BY NewRowsStep
<1>2. mailed' \subseteq drawn' /\ drawn \subseteq drawn'
  BY StepIs DEF Fresh, OneMoves, AllStop, NoneMoves, Arrives
<1>3. \A t \in Tokens : resets'[t] # None => t \in drawn'
  BY <1>1, <1>2 DEF NewRows, Fresh, Drawing, ResetPlaces
<1>4. \A r \in Requests : place'[r] \in Drawing => input'[r].token \in drawn' \ mailed'
  BY DrawingStep
<1>5. \A r, s \in Requests :
        place'[r] \in Drawing /\ place'[s] \in Drawing /\ input'[r].token = input'[s].token
          => r = s
  <2> SUFFICES ASSUME NEW r \in Requests, NEW s \in Requests, r # s,
                      place'[r] \in Drawing, place'[s] \in Drawing,
                      input'[r].token = input'[s].token
               PROVE  FALSE
    OBVIOUS
  <2>1. CASE place[r] \in Drawing /\ input'[r].token = input[r].token
    <3>1. input[r].token \in drawn
      BY <2>1 DEF Fresh
    <3> QED  BY <2>1, <3>1, DrawingStep DEF Fresh
  <2>2. CASE input'[r].token \notin drawn /\ OneMoves(r)
    <3>1. place[s] \in Drawing /\ input'[s].token = input[s].token
      BY <2>2 DEF OneMoves, OthersStay
    <3> QED  BY <2>2, <3>1 DEF Fresh
  <2> QED  BY <2>1, <2>2, DrawingStep
<1>6. ASSUME NEW r \in Requests, place'[r] \in {"findUser", "createReset"},
             resets'[input'[r].token] # None
      PROVE  FALSE
  <2>1. place'[r] \in Drawing
    BY <1>6 DEF Drawing, ResetPlaces
  <2>2. input'[r].token \in Tokens
    BY <2>1, DrawingStep
  <2>3. resets[input'[r].token] = None
    <3>1. CASE place[r] \in Drawing /\ input'[r].token = input[r].token
      <4>1. place[r] \in {"findUser", "createReset"}
        BY <1>6, <2>1, <3>1, DrawingStep DEF Drawing, SignupPlaces, ResetPlaces
      <4> QED  BY <3>1, <4>1 DEF Fresh
    <3>2. CASE input'[r].token \notin drawn
      BY <2>2, <3>2 DEF Fresh
    <3> QED  BY <2>1, <3>1, <3>2, DrawingStep
  <2>4. PICK s \in Requests : /\ place[s] = "createReset" /\ place'[s] = "mailReset"
                              /\ input'[r].token = input[s].token
    BY <1>1, <1>6, <2>2, <2>3 DEF NewRows
  <2>5. r # s /\ input[s].token \in drawn /\ place[s] \in Drawing
    BY <1>6, <2>4 DEF Fresh, Drawing, ResetPlaces
  <2> QED  BY <2>1, <2>4, <2>5, DrawingStep DEF Fresh
<1> QED  BY <1>2, <1>3, <1>4, <1>5, <1>6 DEF Fresh

LEMMA OwnedStep ==
  ASSUME AccountsTypeOK, Shape, Fresh, Owned, Bound, [Next]_vars
  PROVE  Owned'
<1>1. NewRows /\ Grows
  BY NewRowsStep, TablesGrow
<1>2. ASSUME NEW t \in Tokens, verifications'[t] # None
      PROVE  accounts'[verifications'[t].user] # None
  <2>1. CASE verifications[t] # None /\ verifications'[t].user = verifications[t].user
    <3>1. verifications[t].user \in Users /\ accounts[verifications[t].user] # None
      BY <2>1 DEF Owned, AccountsTypeOK, Verifications
    <3> QED  BY <1>1, <2>1, <3>1 DEF Grows
  <2>2. ASSUME NEW r \in Requests, place[r] = "createVerification",
               verifications'[t].user = input[r].user
        PROVE  accounts'[verifications'[t].user] # None
    BY <1>1, <2>2 DEF Shape, Seen, Grows
  <2> QED  BY <1>1, <1>2, <2>1, <2>2 DEF NewRows
<1>3. ASSUME NEW t \in Tokens, resets'[t] # None
      PROVE  accounts'[resets'[t].user] # None
  <2>1. CASE resets[t] # None
    <3>1. resets[t].user \in Users /\ accounts[resets[t].user] # None
      BY <2>1 DEF Owned, AccountsTypeOK, Resets
    <3> QED  BY <1>1, <2>1, <3>1 DEF Grows
  <2>2. ASSUME NEW r \in Requests, place[r] = "createReset", resets'[t].user = input[r].user
        PROVE  accounts'[resets'[t].user] # None
    BY <1>1, <2>2 DEF Shape, Seen, Grows
  <2> QED  BY <1>1, <1>3, <2>1, <2>2 DEF NewRows
<1> QED  BY <1>2, <1>3 DEF Owned

LEMMA BoundStep ==
  ASSUME AccountsTypeOK, Shape, Fresh, Owned, Bound, [Next]_vars
  PROVE  Bound'
<1>1. Grows /\ ((\E r \in Requests : OneMoves(r)) \/ AllStop \/ NoneMoves)
  BY StepIs, TablesGrow
<1> DEFINE BoundOf(r) ==
      LET t == input[r].token IN
        /\ place[r] = "commitVerification" =>
              t # None /\ (verifications[t] # None => verifications[t].user = input[r].user)
        /\ place[r] \in {"markUsed", "updatePassword"} =>
              t # None /\ resets[t] # None /\ resets[t].user = input[r].user
        /\ place[r] = "updatePassword" => resets[t].status = "used"
\* A handler that stays where it is stays bound, as mailed tokens keep their users.
<1>2. ASSUME NEW r \in Requests, place'[r] = place[r], input'[r] = input[r]
      PROVE  BoundOf(r)'
  <2>1. CASE place[r] \in {"commitVerification", "markUsed", "updatePassword"}
    <3>1. input[r].token \in mailed /\ input[r].token \in Tokens
      BY <2>1 DEF Shape, Bound, Presenting, VerifyPlaces, ConfirmPlaces, AccountsTypeOK
    <3> QED  BY <1>1, <1>2, <3>1 DEF Bound, Grows
  <2>2. CASE place[r] \notin {"commitVerification", "markUsed", "updatePassword"}
    BY <1>2, <2>2
  <2> QED  BY <2>1, <2>2
<1>3. ASSUME NEW r \in Requests, OneMoves(r)
      PROVE  BoundOf(r)'
  <2>1. CASE Arrives(r)
    BY <2>1 DEF Arrives
  <2>2. CASE Stop(r)
    BY <2>2 DEF Stop
  <2>3. CASE Continues(r)
    <3>1. CASE place[r] = "markUsed"
      <4>1. /\ input[r].token \in Tokens /\ resets[input[r].token] # None
            /\ input[r].token # None /\ resets[input[r].token].user = input[r].user
        BY <3>1 DEF Bound, AccountsTypeOK, Inputs
      <4> QED  BY <1>1, <2>3, <3>1, <4>1 DEF Continues, Grows
    <3>2. CASE place[r] # "markUsed"
      BY <2>3, <3>2 DEF Continues
    <3> QED  BY <3>1, <3>2
  <2>4. CASE FindsOwner(r)
    <3> DEFINE t == input[r].token
    <3>1. input'[r].token = t
      BY <1>3, <2>4 DEF OneMoves, Arrives, Stop, Continues, FindsOwner
    <3>2. CASE place'[r] = "commitVerification"
      <4>1. Verifiable(t) /\ verifications' = verifications
            /\ input'[r] = [input[r] EXCEPT !.user = verifications[t].user]
        BY <2>4, <3>2 DEF FindsOwner
      <4>2. verifications[t].user \in Users /\ t # None
        BY <4>1, TokensKnown DEF Verifiable
      <4>3. input'[r].user = verifications[t].user
        BY <4>1, <4>2, OwnerSet DEF AccountsTypeOK
      <4> QED  BY <3>1, <3>2, <4>1, <4>2, <4>3
    <3>3. CASE place'[r] \in {"markUsed", "updatePassword"}
      <4>1. Usable(t) /\ input'[r] = [input[r] EXCEPT !.user = resets[t].user]
            /\ (place'[r] = "updatePassword" => resets'[t].status = "used")
        BY <2>4, <3>3 DEF FindsOwner
      <4>2. resets[t].user \in Users /\ t # None /\ t \in Tokens /\ resets[t] # None
        BY <4>1, TokensKnown DEF Usable
      <4>3. input'[r].user = resets[t].user
        BY <4>1, <4>2, OwnerSet DEF AccountsTypeOK
      <4> QED  BY <1>1, <3>1, <3>3, <4>1, <4>2, <4>3 DEF Grows
    <3> QED  BY <2>4, <3>2, <3>3 DEF FindsOwner
  <2> QED  BY <1>3, <2>1, <2>2, <2>3, <2>4 DEF OneMoves
<1>4. \A r \in Requests : BoundOf(r)'
  <2>1. CASE AllStop
    BY <2>1 DEF AllStop
  <2>2. CASE NoneMoves
    BY <1>2, <2>2 DEF NoneMoves
  <2>3. ASSUME NEW r \in Requests, OneMoves(r), NEW s \in Requests
        PROVE  BoundOf(s)'
    BY <1>2, <1>3, <2>3 DEF OneMoves, OthersStay
  <2> HIDE DEF BoundOf
  <2> QED  BY <1>1, <2>1, <2>2, <2>3
<1> QED  BY <1>4 DEF Bound

\* What a step does to the rows of users who have one.
Spares(u) == accounts[u] # None =>
    /\ accounts'[u] # None
    /\ accounts'[u].email = accounts[u].email
    /\ accounts'[u].password = accounts[u].password
    /\ accounts'[u].verified = accounts[u].verified

Verifies(r, u) ==
    /\ place[r] \in VerifyPlaces
    /\ input[r].token \in mailed
    /\ u \in Users /\ accounts[u] # None
    /\ verifications[input[r].token] # None => verifications[input[r].token].user = u
    /\ verifications[input[r].token] = None => accounts[u].verified
    /\ verifications'[input[r].token] = None
    /\ \A t \in Tokens \ {input[r].token} : verifications'[t] = verifications[t]
    /\ \A v \in Users \ {u} : Spares(v)
    /\ accounts'[u] # None
    /\ accounts'[u].email = accounts[u].email
    /\ accounts'[u].password = accounts[u].password
    /\ accounts'[u].verified

SetsPassword(r) ==
    LET u == input[r].user IN
    /\ place[r] = "updatePassword" /\ place'[r] = "idle"
    /\ verifications' = verifications
    /\ u \in Users /\ accounts[u] # None
    /\ \A v \in Users \ {u} : Spares(v)
    /\ accounts'[u] # None
    /\ accounts'[u].email = accounts[u].email
    /\ accounts'[u].password = input[r].password
    /\ accounts'[u].verified = accounts[u].verified

NoneGone == \A t \in Tokens : verifications[t] # None => verifications'[t] # None

\* A row changes only when its address is verified or its password is reset.
LEMMA RowsStep ==
  ASSUME AccountsTypeOK, Shape, Fresh, Owned, Bound, Proved, [Next]_vars
  PROVE  \/ NoneGone /\ \A u \in Users : Spares(u)
         \/ \E r \in Requests : SetsPassword(r)
         \/ \E r \in Requests, u \in Users : Verifies(r, u)
<1>0. HandlersOK /\ TablesOK
  BY TypesSplit
<1> USE DEF tables
<1>1. ASSUME UNCHANGED <<accounts, verifications>>
      PROVE  NoneGone /\ \A u \in Users : Spares(u)
  BY <1>1 DEF NoneGone, Spares
<1>2. ASSUME NEW r \in Requests, NEW u \in Users, accounts[u] # None, Verify(r, u),
             place[r] \in VerifyPlaces, input[r].token # None,
             verifications[input[r].token] # None => verifications[input[r].token].user = u,
             verifications[input[r].token] = None => accounts[u].verified
      PROVE  Verifies(r, u)
  <2>1. input[r].token \in mailed /\ input[r].token \in Tokens
    BY <1>2 DEF Shape, Presenting, AccountsTypeOK
  <2>2. \A t \in Tokens \ {input[r].token} : verifications'[t] = verifications[t]
    BY <1>0, <1>2, <2>1 DEF Verify, TablesOK
  <2> QED  BY <1>2, <2>1, <2>2, VerifyEffect DEF Verifies, Spares
<1>3. ASSUME NEW r \in Requests, Start(r)
      PROVE  UNCHANGED <<accounts, verifications>>
  BY <1>3, StartIs DEF Arrives
<1>4. ASSUME NEW r \in Requests, Handle(r)
      PROVE  \/ NoneGone /\ \A u \in Users : Spares(u)
             \/ SetsPassword(r)
             \/ \E u \in Users : Verifies(r, u)
  <2>1. CASE CreateUser(r)
    <3>1. verifications' = verifications
      BY <2>1 DEF CreateUser
    <3>2. \A u \in Users : Spares(u)
      BY <2>1, CreateUserEffect DEF UserAdded, Spares
    <3> QED  BY <3>1, <3>2 DEF NoneGone
  <2>2. CASE CreateVerification(r)
    <3>1. place[r] \in Drawing /\ accounts' = accounts
      BY <2>2 DEF CreateVerification, At, Drawing, SignupPlaces
    <3>2. input[r].token \in Tokens /\ input[r].user \in Users
      BY <3>1 DEF Shape
    <3> DEFINE row == [user |-> input[r].user, expired |-> FALSE]
    <3>3. row # None /\ verifications' = [verifications EXCEPT ![input[r].token] = row]
      <4>1. row \in Verifications
        BY <3>2 DEF Verifications
      <4> QED  BY <2>2, <4>1 DEF CreateVerification
    <3> HIDE DEF row
    <3> QED  BY <1>0, <3>1, <3>2, <3>3 DEF NoneGone, Spares, TablesOK
  <2>3. CASE SqliteConsumeVerification(r)
    <3>1. CASE Verifiable(input[r].token)
      <4> DEFINE u == verifications[input[r].token].user
      <4>1. u \in Users /\ accounts[u] # None /\ verifications[input[r].token] # None
            /\ input[r].token # None
        BY <3>1, TokensKnown DEF Verifiable
      <4>2. Verify(r, u) /\ place[r] \in VerifyPlaces
        BY <2>3, <3>1 DEF SqliteConsumeVerification, At, VerifyPlaces
      <4> QED  BY <1>2, <4>1, <4>2
    <3>2. CASE ~ Verifiable(input[r].token)
      BY <1>1, <2>3, <3>2 DEF SqliteConsumeVerification
    <3> QED  BY <3>1, <3>2
  <2>4. CASE PgCommitVerification(r)
    <3>1. place[r] = "commitVerification" /\ Verify(r, input[r].user)
      BY <2>4 DEF PgCommitVerification, At
    <3>2. /\ input[r].user \in Users /\ accounts[input[r].user] # None
          /\ input[r].token # None
          /\ verifications[input[r].token] # None =>
                verifications[input[r].token].user = input[r].user
          /\ verifications[input[r].token] = None => accounts[input[r].user].verified
      BY <3>1 DEF Shape, Seen, Bound, Proved
    <3> QED  BY <1>2, <3>1, <3>2 DEF VerifyPlaces
  <2>5. CASE UpdatePassword(r)
    <3>1. /\ place[r] = "updatePassword" /\ place'[r] = "idle"
          /\ verifications' = verifications /\ accounts[input[r].user] # None
      BY <1>0, <2>5, MovesAre DEF UpdatePassword, At, Stop, Shape, Seen
    <3>2. \A v \in Users \ {input[r].user} : Spares(v)
      BY <2>5, UpdatePasswordEffect DEF Spares
    <3> QED  BY <2>5, <3>1, <3>2, UpdatePasswordEffect DEF SetsPassword
  <2>6. CASE \/ MailVerification(r) \/ SkipVerification(r) \/ PgSelectVerification(r)
             \/ Locked(r) \/ LockedFailsOpen(r) \/ ReadUser(r) \/ ReadUserFails(r)
             \/ RecordFailure(r) \/ Reset(r) \/ LockoutLost(r) \/ IssueToken(r)
             \/ FindUser(r) \/ CreateReset(r) \/ MailReset(r) \/ SqliteConsumeReset(r)
             \/ PgSelectReset(r) \/ PgMarkUsed(r)
    BY <1>1, <2>6 DEF MailVerification, SkipVerification, PgSelectVerification, Locked,
       LockedFailsOpen, ReadUser, ReadUserFails, RecordFailure, Reset, LockoutLost, IssueToken,
       FindUser, CreateReset, MailReset, SqliteConsumeReset, PgSelectReset, PgMarkUsed
  <2> QED  BY <1>4, <2>1, <2>2, <2>3, <2>4, <2>5, <2>6 DEF Handle
<1>5. ASSUME NEW t \in Tokens, Expire(t)
      PROVE  NoneGone /\ \A u \in Users : Spares(u)
  <2>1. accounts' = accounts
    BY <1>5 DEF Expire
  <2> QED  BY <1>5, <2>1, ExpireEffect DEF NoneGone, Spares
<1>6. CASE \/ \E r \in Requests : Fail(r)
           \/ \E u \in Users : AgeOut(u)
           \/ Restart
           \/ UNCHANGED vars
  BY <1>1, <1>6 DEF Fail, AgeOut, Restart, vars
<1> QED  BY <1>1, <1>3, <1>4, <1>5, <1>6 DEF Next

LEMMA ProvedStep ==
  ASSUME AccountsTypeOK, Shape, Fresh, Owned, Bound, Proved, [Next]_vars
  PROVE  Proved'
<1> SUFFICES ASSUME NEW r \in Requests, place'[r] = "commitVerification",
                    verifications'[input'[r].token] = None
             PROVE  accounts'[input'[r].user].verified
  BY DEF Proved
<1>1. place[r] = "commitVerification" /\ input'[r] = input[r]
  <2>1. CASE OneMoves(r)
    <3>1. FindsOwner(r) /\ input'[r].token = input[r].token
      BY <2>1 DEF OneMoves, Arrives, Stop, Continues
    <3>2. Verifiable(input[r].token) /\ verifications' = verifications
      BY <3>1 DEF FindsOwner
    <3> QED  BY <3>1, <3>2 DEF Verifiable
  <2>2. CASE ~ OneMoves(r)
    BY <2>2, StepIs DEF OneMoves, OthersStay, AllStop, NoneMoves
  <2> QED  BY <2>1, <2>2
<1> DEFINE t == input[r].token
           u == input[r].user
<1>2. /\ t \in Tokens /\ u \in Users /\ accounts[u] # None
      /\ verifications[t] # None => verifications[t].user = u
      /\ verifications[t] = None => accounts[u].verified
  BY <1>1 DEF Shape, Seen, Bound, Proved, AccountsTypeOK, Inputs
<1>3. CASE NoneGone /\ \A v \in Users : Spares(v)
  BY <1>1, <1>2, <1>3 DEF NoneGone, Spares
<1>4. ASSUME NEW s \in Requests, SetsPassword(s)
      PROVE  accounts'[u].verified
  BY <1>1, <1>2, <1>4 DEF SetsPassword, Spares
<1>5. ASSUME NEW s \in Requests, NEW v \in Users, Verifies(s, v)
      PROVE  accounts'[u].verified
  BY <1>1, <1>2, <1>5 DEF Verifies, Spares
<1> QED  BY <1>1, <1>3, <1>4, <1>5, RowsStep

\* A token becomes used by a handler that got hold of it in this very step.
LEMMA MarkedBy ==
  ASSUME AccountsTypeOK, Shape, Fresh, Owned, Bound, [Next]_vars, NEW t \in Tokens,
         resets[t] # None, resets[t].status # "used", resets'[t].status = "used"
  PROVE  \E x \in Requests : /\ place'[x] = "updatePassword" /\ input[x].token = t
                             /\ \/ place[x] = "markUsed"
                                \/ place[x] = "consumeReset" /\ MetaDriver = "sqlite"
<1> USE DEF tables
<1>0. HandlersOK
  BY TypesSplit
<1>1. resets' # resets
  OBVIOUS
<1>2. ASSUME NEW r \in Requests, Handle(r)
      PROVE  CreateReset(r) \/ SqliteConsumeReset(r) \/ PgMarkUsed(r)
  BY <1>1, <1>2 DEF Handle, CreateUser, CreateVerification, MailVerification,
     SkipVerification, SqliteConsumeVerification, PgSelectVerification,
     PgCommitVerification, Locked, LockedFailsOpen, ReadUser, ReadUserFails, RecordFailure,
     Reset, LockoutLost, IssueToken, FindUser, MailReset, PgSelectReset, UpdatePassword
<1>3. ASSUME NEW r \in Requests, CreateReset(r)
      PROVE  FALSE
  <2>1. input[r].token # t
    BY <1>3 DEF Fresh, CreateReset, At
  <2>2. resets'[t] = resets[t]
    BY <1>3, <2>1 DEF CreateReset, AccountsTypeOK
  <2> QED  BY <2>2
<1>4. ASSUME NEW r \in Requests, SqliteConsumeReset(r)
      PROVE  /\ place'[r] = "updatePassword" /\ input[r].token = t
             /\ place[r] = "consumeReset" /\ MetaDriver = "sqlite"
  <2>1. /\ Usable(input[r].token) /\ MarkUsed(r)
        /\ place[r] = "consumeReset" /\ MetaDriver = "sqlite"
    BY <1>1, <1>4 DEF SqliteConsumeReset, At
  <2>2. place'[r] = "updatePassword"
    BY <1>0, <1>4, <2>1, MovesAre DEF SqliteConsumeReset
  <2>3. \A x \in Tokens \ {input[r].token} : resets'[x] = resets[x]
    BY <2>1, TokensKnown, MarkUsedEffect
  <2> QED  BY <2>1, <2>2, <2>3
<1>5. ASSUME NEW r \in Requests, PgMarkUsed(r)
      PROVE  place'[r] = "updatePassword" /\ input[r].token = t /\ place[r] = "markUsed"
  <2>1. place[r] = "markUsed" /\ MarkUsed(r)
    BY <1>5 DEF PgMarkUsed, At
  <2>2. place'[r] = "updatePassword"
    BY <1>0, <1>5, MovesAre DEF PgMarkUsed
  <2>3. input[r].token \in Tokens /\ resets[input[r].token] # None
    BY <2>1 DEF Bound, AccountsTypeOK, Inputs
  <2>4. \A x \in Tokens \ {input[r].token} : resets'[x] = resets[x]
    BY <2>1, <2>3, MarkUsedEffect
  <2> QED  BY <2>1, <2>2, <2>4
<1>6. ASSUME NEW x \in Tokens, Expire(x)
      PROVE  FALSE
  BY <1>6, ExpireEffect
<1>7. ~ ((\E r \in Requests : Start(r) \/ Fail(r)) \/ Restart \/ UNCHANGED vars
         \/ (\E u \in Users : AgeOut(u)))
  BY <1>1, StartIs DEF Arrives, Fail, Restart, AgeOut, vars
<1> QED  BY <1>2, <1>3, <1>4, <1>5, <1>6, <1>7 DEF Next

\* Who gets a token through found it not used yet, so nobody holds it.
LEMMA GetsThrough ==
  ASSUME AccountsTypeOK, Shape, Fresh, Owned, Bound, Unshared, [Next]_vars,
         NEW r \in Requests, place[r] # "updatePassword", place'[r] = "updatePassword"
  PROVE  /\ OneMoves(r) /\ input'[r].token = input[r].token
         /\ resets[input[r].token] # None /\ resets[input[r].token].status # "used"
<1>1. (\E x \in Requests : OneMoves(x)) \/ AllStop \/ NoneMoves
  BY StepIs
<1>2. OneMoves(r)
  BY <1>1 DEF OneMoves, OthersStay, AllStop, NoneMoves
<1>3. CASE FindsOwner(r)
  <2>1. input'[r].token = input[r].token
    BY <1>2, <1>3 DEF OneMoves, Arrives, Stop, Continues, FindsOwner
  <2> QED  BY <1>2, <1>3, <2>1 DEF FindsOwner, Usable
<1>4. CASE Continues(r)
  <2>1. place[r] = "markUsed" /\ input'[r] = input[r]
    BY <1>4 DEF Continues
  <2> QED  BY <1>2, <2>1 DEF Unshared, Bound
<1> QED  BY <1>2, <1>3, <1>4 DEF OneMoves, Arrives, Stop

LEMMA UnsharedStep ==
  ASSUME AccountsTypeOK, Shape, Fresh, Owned, Bound, Unshared, ConfirmApart, [Next]_vars
  PROVE  Unshared'
<1>1. (\E x \in Requests : OneMoves(x)) \/ AllStop \/ NoneMoves
  BY StepIs
<1>2. ASSUME NEW r \in Requests, place'[r] = "markUsed"
      PROVE  resets'[input'[r].token].status # "used"
  <2>1. \/ place[r] = "markUsed" /\ input'[r] = input[r]
        \/ OneMoves(r) /\ FindsOwner(r) /\ place[r] = "consumeReset"
    <3>1. CASE OneMoves(r)
      BY <1>2, <3>1 DEF OneMoves, Arrives, Stop, Continues, FindsOwner
    <3>2. CASE ~ OneMoves(r)
      <4>1. place'[r] = place[r] /\ input'[r] = input[r]
        BY <1>1, <1>2, <3>2 DEF OneMoves, OthersStay, AllStop, NoneMoves
      <4> QED  BY <1>2, <4>1
    <3> QED  BY <3>1, <3>2
  <2>2. CASE place[r] = "markUsed" /\ input'[r] = input[r]
    <3> DEFINE t == input[r].token
    <3>1. t \in Tokens /\ resets[t] # None /\ resets[t].status # "used"
      BY <2>2 DEF Bound, Unshared, AccountsTypeOK, Inputs
    <3>2. MetaDriver # "sqlite"
      BY <2>2 DEF Shape
    <3>3. ASSUME NEW x \in Requests, place[x] = "markUsed", input[x].token = t
          PROVE  x = r
      BY <2>2, <3>3 DEF ConfirmApart
    <3> HIDE DEF t
    <3>4. resets'[t].status # "used"
      BY <1>2, <3>1, <3>2, <3>3, MarkedBy
    <3> QED  BY <2>2, <3>4 DEF t
  <2>3. CASE OneMoves(r) /\ FindsOwner(r) /\ place[r] = "consumeReset"
    <3>1. /\ Usable(input[r].token) /\ UNCHANGED resets
          /\ input'[r].token = input[r].token
      BY <1>2, <2>3 DEF FindsOwner, OneMoves, Arrives, Stop, Continues
    <3> QED  BY <3>1 DEF Usable
  <2> QED  BY <2>1, <2>2, <2>3
<1>3. ASSUME NEW r \in Requests, NEW s \in Requests, NEW t \in Tokens,
             Holds(r, t)', Holds(s, t)'
      PROVE  r = s
  <2>1. ASSUME NEW x \in Requests, Holds(x, t)', ~ Holds(x, t)
        PROVE  OneMoves(x) /\ \A y \in Requests : ~ Holds(y, t)
    <3>1. place[x] # "updatePassword"
      BY <1>1, <2>1 DEF OneMoves, OthersStay, AllStop, NoneMoves, Arrives, Stop, Continues,
         FindsOwner, Holds
    <3>2. OneMoves(x) /\ input[x].token = t /\ resets[t].status # "used"
      BY <2>1, <3>1, GetsThrough DEF Holds
    <3> QED  BY <3>2 DEF Bound, Holds
  <2>2. CASE Holds(r, t) /\ Holds(s, t)
    BY <2>2 DEF Unshared
  <2>3. CASE ~ Holds(r, t)
    BY <1>3, <2>1, <2>3 DEF OneMoves, OthersStay, Holds
  <2>4. CASE ~ Holds(s, t)
    BY <1>3, <2>1, <2>4 DEF OneMoves, OthersStay, Holds
  <2> QED  BY <2>2, <2>3, <2>4
<1> QED  BY <1>2, <1>3 DEF Unshared

\* With SQLite nobody is between a SELECT and its UPDATE.
LEMMA OneHolderStep ==
  ASSUME AccountsTypeOK, Shape, Fresh, Owned, Bound, OneHolder, [Next]_vars
  PROVE  OneHolder'
<1>1. MetaDriver = "sqlite" => ConfirmApart
  BY DEF Shape, ConfirmApart
<1> QED  BY <1>1, UnsharedStep DEF OneHolder

LEMMA TryingOK ==
  ASSUME NEW u
  PROVE  /\ IsFiniteSet(Requests) /\ Cardinality(Requests) \in Nat
         /\ IsFiniteSet(Trying(u)) /\ Cardinality(Trying(u)) \in Nat
         /\ Cardinality(Trying(u)) <= Cardinality(Requests)
<1>1. Trying(u) \subseteq Requests
  BY DEF Trying
<1> QED  BY <1>1, AccountsAssumption, FS_Subset, FS_CardinalityType

\* A failed login counts instead of its request; a request that is let in
\* finds the count below the limit.
LEMMA BoundedStep ==
  ASSUME AccountsTypeOK, Shape, Fresh, Owned, Bound, Bounded, [Next]_vars
  PROVE  Bounded'
<1> SUFFICES ASSUME LockoutDriver = "memory", NEW u \in Users
             PROVE  failures'[u] + Cardinality(Trying(u)')
                      <= MaxFailures - 1 + Cardinality(Requests)
  BY DEF Bounded, FailuresBounded
<1> DEFINE Limit == MaxFailures - 1 + Cardinality(Requests)
<1>1. /\ Cardinality(Requests) \in Nat
      /\ Cardinality(Trying(u)) \in Nat /\ IsFiniteSet(Trying(u))
      /\ failures[u] \in Nat /\ failures[u] + Cardinality(Trying(u)) <= Limit
  BY TryingOK DEF Bounded, FailuresBounded, AccountsTypeOK
<1>2. Trying(u)' \subseteq Requests
  BY DEF Trying
<1>3. /\ Cardinality(Trying(u)') \in Nat
      /\ Cardinality(Trying(u)') <= Cardinality(Requests)
  BY <1>2, AccountsAssumption, FS_Subset, FS_CardinalityType
<1>4. ASSUME Trying(u)' \subseteq Trying(u), failures'[u] \in Nat, failures'[u] <= failures[u]
      PROVE  failures'[u] + Cardinality(Trying(u)') <= Limit
  BY <1>1, <1>3, <1>4, FS_Subset
<1>5. ASSUME NEW r \in Requests, Locked(r)
      PROVE  failures'[u] + Cardinality(Trying(u)') <= Limit
  <2>1. failures' = failures
    BY <1>5 DEF Locked
  <2>2. CASE input[r].user = u /\ failures[u] < MaxFailures
    BY <1>1, <1>3, <2>1, <2>2
  <2>3. CASE ~ (input[r].user = u /\ failures[u] < MaxFailures)
    <3>1. Trying(u)' \subseteq Trying(u)
      <4>1. OthersStay(r) /\ (Stop(r) \/ (input'[r] = input[r] /\ input[r].user # u))
        BY <1>1, <1>5, <2>3, TypesSplit, MovesAre DEF Locked, Stop
      <4> QED  BY <4>1 DEF Trying, OthersStay, Stop
    <3> QED  BY <1>1, <1>4, <2>1, <3>1
  <2> QED  BY <2>2, <2>3
<1>6. ASSUME NEW r \in Requests, RecordFailure(r)
      PROVE  failures'[u] + Cardinality(Trying(u)') <= Limit
  <2>1. OthersStay(r) /\ Stop(r) /\ place[r] = "mismatched" /\ input[r].user \in Users
    BY <1>6, TypesSplit, MovesAre DEF RecordFailure, At, Stop, Shape, LoginPlaces
  <2>2. CASE input[r].user = u
    <3>1. r \in Trying(u) /\ Trying(u)' = Trying(u) \ {r}
      BY <2>1, <2>2 DEF Trying, OthersStay, Stop
    <3>2. Cardinality(Trying(u)') = Cardinality(Trying(u)) - 1
      BY <1>1, <3>1, FS_RemoveElement
    <3>3. failures'[u] = failures[u] + 1
      BY <1>6, <2>2 DEF RecordFailure, AccountsTypeOK
    <3> QED  BY <1>1, <1>3, <3>2, <3>3
  <2>3. CASE input[r].user # u
    <3>1. failures'[u] = failures[u]
      BY <1>6, <2>1, <2>3 DEF RecordFailure, AccountsTypeOK
    <3>2. Trying(u)' \subseteq Trying(u)
      BY <2>1 DEF Trying, OthersStay, Stop
    <3> QED  BY <1>1, <1>4, <3>1, <3>2
  <2> QED  BY <2>2, <2>3
<1>7. ASSUME NEW r \in Requests, OneMoves(r), place[r] # "locked",
             failures'[u] \in Nat, failures'[u] <= failures[u]
      PROVE  failures'[u] + Cardinality(Trying(u)') <= Limit
  <2>1. r \in Trying(u)' => r \in Trying(u)
    BY <1>7 DEF OneMoves, Arrives, Stop, Continues, FindsOwner, Trying
  <2>2. Trying(u)' \subseteq Trying(u)
    BY <1>7, <2>1 DEF OneMoves, OthersStay, Trying
  <2> QED  BY <1>4, <1>7, <2>2
<1>8. ASSUME NEW r \in Requests, Start(r)
      PROVE  failures'[u] + Cardinality(Trying(u)') <= Limit
  BY <1>1, <1>7, <1>8, StartIs DEF OneMoves, Arrives
<1>9. ASSUME NEW r \in Requests, Handle(r)
      PROVE  failures'[u] + Cardinality(Trying(u)') <= Limit
  <2>1. ~ LockedFailsOpen(r) /\ ~ LockoutLost(r)
    BY DEF LockedFailsOpen, LockoutLost
  <2>2. CASE Locked(r) \/ RecordFailure(r)
    BY <1>5, <1>6, <2>2
  <2>3. CASE Reset(r)
    <3>1. failures'[u] \in Nat /\ failures'[u] <= failures[u] /\ place[r] # "locked"
      BY <1>1, <2>3 DEF Reset, At, AccountsTypeOK
    <3> QED  BY <1>7, <1>9, <3>1, HandleMovesOne
  <2>4. CASE \/ CreateUser(r) \/ CreateVerification(r) \/ MailVerification(r)
             \/ SkipVerification(r) \/ SqliteConsumeVerification(r)
             \/ PgSelectVerification(r) \/ PgCommitVerification(r) \/ ReadUser(r)
             \/ ReadUserFails(r) \/ IssueToken(r) \/ FindUser(r) \/ CreateReset(r)
             \/ MailReset(r) \/ SqliteConsumeReset(r) \/ PgSelectReset(r) \/ PgMarkUsed(r)
             \/ UpdatePassword(r)
    <3>1. failures' = failures /\ place[r] # "locked"
      BY <2>4 DEF At, CreateUser, CreateVerification, MailVerification, SkipVerification,
         SqliteConsumeVerification, PgSelectVerification, PgCommitVerification, ReadUser,
         ReadUserFails, IssueToken, FindUser, CreateReset, MailReset, SqliteConsumeReset,
         PgSelectReset, PgMarkUsed, UpdatePassword
    <3> QED  BY <1>1, <1>7, <1>9, <3>1, HandleMovesOne
  <2> QED  BY <1>9, <2>1, <2>2, <2>3, <2>4 DEF Handle
<1>10. ASSUME NEW r \in Requests, Fail(r)
       PROVE  failures'[u] + Cardinality(Trying(u)') <= Limit
  <2>1. OthersStay(r) /\ Stop(r)
    BY <1>10, TypesSplit, MovesAre DEF Stop
  <2>2. failures' = failures
    BY <1>10 DEF Fail
  <2>3. Trying(u)' \subseteq Trying(u)
    BY <2>1 DEF Trying, OthersStay, Stop
  <2> QED  BY <1>1, <1>4, <2>2, <2>3
<1>11. CASE Restart
  <2>1. failures'[u] = 0 /\ Trying(u)' \subseteq Trying(u)
    BY <1>11 DEF Restart, Trying
  <2> QED  BY <1>1, <1>4, <2>1
<1>12. ASSUME NEW v \in Users, AgeOut(v)
       PROVE  failures'[u] + Cardinality(Trying(u)') <= Limit
  <2>1. failures'[u] \in Nat /\ failures'[u] <= failures[u]
    BY <1>1, <1>12 DEF AgeOut, AccountsTypeOK
  <2>2. Trying(u)' = Trying(u)
    BY <1>12 DEF AgeOut, Trying
  <2> QED  BY <1>4, <2>1, <2>2
<1>13. CASE (\E t \in Tokens : Expire(t)) \/ UNCHANGED vars
  <2>1. UNCHANGED <<failures, place, input>>
    BY <1>13 DEF Expire, vars
  <2>2. Trying(u)' = Trying(u)
    BY <2>1 DEF Trying
  <2> QED  BY <1>1, <1>4, <2>1, <2>2
<1> QED  BY <1>8, <1>9, <1>10, <1>11, <1>12, <1>13 DEF Next

-----------------------------------------------------------------------------
(***************************************************************************)
(* The theorems                                                            *)
(***************************************************************************)

LEMMA InitIInv == Init => IInv
<1> SUFFICES ASSUME Init
             PROVE  IInv
  OBVIOUS
<1>1. AccountsTypeOK
  BY NoInputOK DEF Init, AccountsTypeOK
<1>2. Shape /\ Fresh /\ Owned /\ Bound /\ Proved /\ OneHolder
  BY DEF Init, Shape, Fresh, Owned, Bound, Proved, OneHolder, Unshared, Holds, Drawing, Presenting, Seen,
     SignupPlaces, VerifyPlaces, LoginPlaces, ResetPlaces, ConfirmPlaces
<1>3. Bounded
  <2> SUFFICES ASSUME NEW u \in Users
               PROVE  failures[u] + Cardinality(Trying(u))
                        <= MaxFailures - 1 + Cardinality(Requests)
    BY DEF Bounded, FailuresBounded
  <2>1. failures[u] = 0 /\ Trying(u) = {}
    BY DEF Init, Trying
  <2> QED  BY <2>1, FS_EmptySet, TryingOK
<1> QED  BY <1>1, <1>2, <1>3 DEF IInv

LEMMA StepIInv == IInv /\ [Next]_vars => IInv'
<1> SUFFICES ASSUME IInv, [Next]_vars
             PROVE  IInv'
  OBVIOUS
<1> USE DEF IInv
<1>1. AccountsTypeOK'
  BY TablesGrow, HandlersStep DEF AccountsTypeOK, TablesOK, HandlersOK, Places
<1> QED  BY <1>1, ShapeStep, FreshStep, OwnedStep, BoundStep, ProvedStep, OneHolderStep,
     BoundedStep

\* The invariant is one.
THEOREM AccountsInvariant == Spec => []IInv
  BY InitIInv, StepIInv, PTL DEF Spec

\* Whatever the requests do, the tables, handlers and counters have their types.
THEOREM AccountsTypesHold == Spec => []AccountsTypeOK
  BY AccountsInvariant, PTL DEF IInv

\* Failed logins that are counted in memory overshoot the limit by fewer than
\* the requests served at once.
THEOREM FailuresAreBounded ==
  ASSUME LockoutDriver = "memory"
  PROVE  Spec => []FailuresBounded
<1>1. IInv => FailuresBounded
  BY DEF IInv, Bounded
<1> QED  BY <1>1, AccountsInvariant, PTL

LEMMA InitUnshared == Init => Unshared
  BY DEF Init, Unshared, Holds

\* While tokens are not shared, none lets a second request through.
LEMMA FirstUse ==
  IInv /\ Unshared /\ [Next]_vars =>
    [\A r \in Requests :
       place[r] # "updatePassword" /\ place'[r] = "updatePassword"
         => resets[input[r].token].status # "used"]_vars
  BY GetsThrough DEF IInv

\* With SQLite no request gets past a reset token that let another one past.
THEOREM SqliteResetsAreOneTime ==
  ASSUME MetaDriver = "sqlite"
  PROVE  Spec => ResetTokensAreOneTime
<1>1. IInv => Unshared
  BY DEF IInv, OneHolder
<1> QED  BY <1>1, FirstUse, AccountsInvariant, PTL DEF Spec, ResetTokensAreOneTime

LEMMA ApartUnshared == Spec /\ []ConfirmApart => []Unshared
<1>1. IInv /\ Unshared /\ ConfirmApart /\ [Next]_vars => Unshared'
  BY UnsharedStep DEF IInv
<1> QED  BY <1>1, InitUnshared, AccountsInvariant, PTL DEF Spec

\* With either database it takes two requests that present one token, both
\* between the SELECT and the UPDATE of Postgres, for the second to get past.
THEOREM ApartResetsAreOneTime == Spec /\ []ConfirmApart => ResetTokensAreOneTime
  BY FirstUse, ApartUnshared, AccountsInvariant, PTL DEF Spec, ResetTokensAreOneTime

\* A step that touches no reset, no holder of one and no password is a stutter.
Stutter == UNCHANGED <<password, owner, status>>

LEMMA StutterIs ==
  ASSUME resets' = resets, password' = password,
         \A r \in Requests, t \in Tokens : Holds(r, t)' <=> Holds(r, t)
  PROVE  Stutter
  BY DEF Stutter, owner, status

LEMMA QuietMove ==
  ASSUME NEW r \in Requests, OthersStay(r),
         place[r] # "updatePassword", place'[r] # "updatePassword",
         resets' = resets, password' = password
  PROVE  Stutter
<1>1. \A s \in Requests, t \in Tokens : Holds(s, t)' <=> Holds(s, t)
  BY DEF Holds, OthersStay
<1> QED  BY <1>1, StutterIs

LEMMA StatusIsFunction ==
  /\ status = [x \in Tokens |-> status[x]]
  /\ status' = [x \in Tokens |-> status'[x]]
  BY DEF status

\* The steps that are not stutters.
LEMMA CreateUserIsSignUp ==
  ASSUME IInv, [Next]_vars, NEW r \in Requests, CreateUser(r)
  PROVE  Stutter \/ \E u \in Users : OneTime!SignUp(u)
<1>1. OthersStay(r) /\ place[r] = "createUser" /\ place'[r] # "updatePassword" /\ resets' = resets
  BY CreateUserEffect, TypesSplit, MovesAre DEF IInv, CreateUser, At, Stop
<1>2. CASE accounts' = accounts
  BY <1>1, <1>2, QuietMove DEF password
<1>3. CASE /\ UserAdded(r)
           /\ input[r].user \in Users /\ accounts'[input[r].user] \in Accounts
           /\ \A v \in Users \ {input[r].user} : accounts'[v] = accounts[v]
  <2> DEFINE u == input[r].user
  <2>1. /\ u \in Users /\ accounts[u] = None /\ accounts'[u] \in Accounts
        /\ \A v \in Users \ {u} : accounts'[v] = accounts[v]
    BY <1>3 DEF UserAdded
  <2>2. accounts'[u] # None /\ accounts'[u].password \in Passwords
    BY <2>1 DEF Accounts
  <2>3. password' = [password EXCEPT ![u] = accounts'[u].password] /\ password[u] = None
    BY <2>1, <2>2 DEF password
  <2>4. UNCHANGED <<owner, status>>
    BY <1>1 DEF owner, status, Holds, OthersStay
  <2> QED  BY <2>1, <2>2, <2>3, <2>4 DEF OneTime!SignUp
<1> QED  BY <1>2, <1>3, CreateUserEffect DEF IInv

LEMMA CreateResetIsIssue ==
  ASSUME IInv, NEW r \in Requests, CreateReset(r)
  PROVE  \E t \in Tokens, u \in Users : OneTime!Issue(t, u)
<1> DEFINE u == input[r].user
           t == input[r].token
<1>1. /\ OthersStay(r) /\ place[r] = "createReset" /\ place'[r] = "mailReset"
      /\ accounts' = accounts
  BY TypesSplit, MovesAre DEF IInv, CreateReset, At
<1>2. u \in Users /\ t \in Tokens /\ accounts[u] # None /\ resets[t] = None
  BY <1>1 DEF IInv, Shape, Fresh, Drawing, ResetPlaces, Seen
<1> DEFINE row == [user |-> u, status |-> "live"]
<1>3. resets' = [resets EXCEPT ![t] = row] /\ row.user = u /\ row.status = "live" /\ row # None
  <2>1. row \in Resets
    BY <1>2 DEF Resets
  <2> QED  BY <2>1 DEF CreateReset
<1> HIDE DEF row
<1>4. resets'[t] = row /\ \A x \in Tokens \ {t} : resets'[x] = resets[x]
  BY <1>2, <1>3 DEF IInv, AccountsTypeOK
<1>5. \A s \in Requests, x \in Tokens : Holds(s, x)' <=> Holds(s, x)
  BY <1>1 DEF Holds, OthersStay
<1>6. status' = [status EXCEPT ![t] = "live"] /\ status[t] = "new"
  BY <1>2, <1>3, <1>4, <1>5 DEF status
<1>7. owner' = [owner EXCEPT ![t] = u]
  <2>1. \A x \in Tokens : (resets'[x] = None <=> resets[x] = None /\ x # t)
                          /\ (x # t => resets'[x] = resets[x])
    BY <1>2, <1>3, <1>4
  <2>2. resets'[t].user = u
    BY <1>3, <1>4
  <2> HIDE DEF t, u
  <2> QED  BY <1>2, <2>1, <2>2 DEF owner
<1>8. /\ password' = password
      /\ password[u] # None
  <2>1. accounts[u].password \in Passwords
    BY <1>2 DEF IInv, AccountsTypeOK, Accounts
  <2> QED  BY <1>1, <1>2, <2>1 DEF password
<1> QED  BY <1>2, <1>6, <1>7, <1>8 DEF OneTime!Issue, OneTime!Become

\* Whichever transaction marks a live token used, and lets its request through.
LEMMA MarkIsSpend ==
  ASSUME IInv, NEW r \in Requests, NEW t \in Tokens, t = input[r].token, MarkUsed(r),
         OthersStay(r), place[r] # "updatePassword", place'[r] = "updatePassword",
         input'[r].token = t, resets[t] # None, resets[t].status = "live",
         accounts' = accounts
  PROVE  OneTime!Spend(t)
<1>1. /\ resets'[t] \in Resets /\ resets'[t].user = resets[t].user
      /\ resets'[t].status = "used" /\ \A x \in Tokens \ {t} : resets'[x] = resets[x]
  BY MarkUsedEffect DEF IInv
<1>2. Holds(r, t)' /\ \A x \in Tokens \ {t}, s \in Requests : Holds(s, x)' <=> Holds(s, x)
  BY DEF Holds, OthersStay
<1>3. status' = [status EXCEPT ![t] = "spent"] /\ status[t] = "live"
  <2>1. status[t] = "live" /\ status'[t] = "spent"
    BY <1>1, <1>2 DEF status
  <2>2. \A x \in Tokens \ {t} : status'[x] = status[x]
    BY <1>1, <1>2 DEF status
  <2> QED  BY <2>1, <2>2, StatusIsFunction
<1>4. UNCHANGED <<password, owner>>
  BY <1>1 DEF password, owner
<1> QED  BY <1>3, <1>4 DEF OneTime!Spend, OneTime!Become

LEMMA ConsumeIsSpend ==
  ASSUME IInv, NEW r \in Requests, SqliteConsumeReset(r)
  PROVE  Stutter \/ \E t \in Tokens : OneTime!Spend(t)
<1>1. accounts' = accounts /\ place[r] = "consumeReset"
  BY DEF SqliteConsumeReset, At
<1>2. CASE Usable(input[r].token)
  <2>1. PICK t \in Tokens : t = input[r].token
    BY <1>2, TokensKnown DEF IInv
  <2>2. /\ t \in Tokens /\ resets[t] # None /\ resets[t].status = "live"
        /\ resets[t].user \in Users
    BY <1>2, <2>1, TokensKnown DEF IInv
  <2>3. /\ MarkUsed(r)
        /\ OthersStay(r) /\ place'[r] = "updatePassword"
        /\ input'[r] = [input[r] EXCEPT !.user = resets[t].user]
    BY <1>2, <2>1, TypesSplit, MovesAre DEF IInv, SqliteConsumeReset
  <2>4. input'[r].token = t
    BY <2>1, <2>2, <2>3, TypesSplit, OwnerSet DEF IInv, HandlersOK
  <2> QED  BY <1>1, <2>1, <2>2, <2>3, <2>4, MarkIsSpend
<1>3. CASE ~ Usable(input[r].token)
  <2>1. resets' = resets /\ Stop(r)
    BY <1>3, TypesSplit, MovesAre DEF IInv, SqliteConsumeReset
  <2> QED  BY <1>1, <2>1, QuietMove DEF Stop, password
<1> QED  BY <1>2, <1>3

\* With Postgres the token is still live if nobody has used it since the SELECT,
\* and it has not expired.
LEMMA MarkUsedIsSpend ==
  ASSUME IInv, Unshared, InTime, NEW r \in Requests, PgMarkUsed(r)
  PROVE  \E t \in Tokens : OneTime!Spend(t)
<1>1. place[r] = "markUsed" /\ MarkUsed(r) /\ accounts' = accounts
  BY DEF PgMarkUsed, At
<1>2. PICK t \in Tokens : t = input[r].token /\ resets[t] # None
  BY <1>1 DEF IInv, Bound, AccountsTypeOK, Inputs
<1>3. resets[t].status = "live"
  <2>1. resets[t].status \in {"live", "expired", "used"}
    BY <1>2 DEF IInv, AccountsTypeOK, Resets
  <2> QED  BY <1>1, <1>2, <2>1 DEF Unshared, InTime
<1>4. OthersStay(r) /\ place'[r] = "updatePassword" /\ input'[r] = input[r]
  BY TypesSplit, MovesAre DEF IInv, PgMarkUsed
<1> QED  BY <1>1, <1>2, <1>3, <1>4, MarkIsSpend

LEMMA UpdateIsSetPassword ==
  ASSUME IInv, Unshared, NEW r \in Requests, UpdatePassword(r)
  PROVE  \E t \in Tokens : OneTime!SetPassword(t)
<1> DEFINE u == input[r].user
<1>1. place[r] = "updatePassword" /\ Stop(r) /\ resets' = resets
  BY TypesSplit, MovesAre DEF IInv, UpdatePassword, At
<1>2. PICK t \in Tokens : /\ t = input[r].token /\ resets[t] # None
                          /\ resets[t].status = "used" /\ resets[t].user = u
  BY <1>1 DEF IInv, Bound, AccountsTypeOK, Inputs
<1>3. Holds(r, t) /\ \A s \in Requests : ~ Holds(s, t)'
  <2>1. Holds(r, t)
    BY <1>1, <1>2 DEF Holds
  <2>2. ASSUME NEW s \in Requests, Holds(s, t)'
        PROVE  FALSE
    <3>1. s # r /\ Holds(s, t)
      BY <1>1, <2>2 DEF Stop, OthersStay, Holds
    <3> QED  BY <1>2, <2>1, <3>1 DEF Unshared
  <2> QED  BY <2>1, <2>2
<1>4. \A x \in Tokens \ {t}, s \in Requests : Holds(s, x)' <=> Holds(s, x)
  BY <1>1, <1>2 DEF Holds, Stop, OthersStay
<1>5. status[t] = "spent" /\ status' = [status EXCEPT ![t] = "done"]
  <2>1. status[t] = "spent" /\ status'[t] = "done"
    BY <1>1, <1>2, <1>3 DEF status
  <2>2. \A x \in Tokens \ {t} : status'[x] = status[x]
    BY <1>1, <1>4 DEF status
  <2> QED  BY <1>2, <2>1, <2>2, StatusIsFunction
<1>6. owner[t] = u /\ owner' = owner
  BY <1>1, <1>2 DEF owner
<1>7. password' = [password EXCEPT ![u] = input[r].password] /\ input[r].password \in Passwords
  <2>1. /\ u \in Users /\ accounts'[u] \in Accounts /\ accounts'[u].password = input[r].password
        /\ input[r].password \in Passwords
        /\ \A v \in Users \ {u} : accounts'[v] = accounts[v]
    BY UpdatePasswordEffect DEF IInv
  <2> QED  BY <2>1 DEF password
<1> QED  BY <1>2, <1>5, <1>6, <1>7 DEF OneTime!SetPassword, OneTime!Become

LEMMA ExpireIsExpire ==
  ASSUME IInv, NEW x \in Tokens, Expire(x)
  PROVE  Stutter \/ \E t \in Tokens : OneTime!Expire(t)
<1>1. /\ UNCHANGED <<accounts, place, input>>
      /\ \A s \in Requests, t \in Tokens : Holds(s, t)' <=> Holds(s, t)
  BY DEF Expire, Holds
<1>2. CASE resets' = resets
  BY <1>1, <1>2, StutterIs DEF password
<1>3. CASE resets' # resets
  <2>1. /\ resets[x] # None /\ resets[x].status = "live"
        /\ resets' = [resets EXCEPT ![x].status = "expired"]
    BY <1>3 DEF Expire
  <2>2. /\ resets'[x] # None /\ resets'[x].user = resets[x].user
        /\ resets'[x].status = "expired"
    <3>1. resets'[x] # resets[x]
      BY <1>3, ExpireEffect DEF IInv, AccountsTypeOK
    <3> QED  BY <3>1, ExpireEffect DEF IInv
  <2>3. \A t \in Tokens \ {x} : resets'[t] = resets[t]
    BY ExpireEffect DEF IInv
  <2>4. status[x] = "live" /\ status'[x] = "expired"
    BY <2>1, <2>2 DEF status
  <2>5. \A t \in Tokens \ {x} : status'[t] = status[t]
    BY <1>1, <2>3 DEF status
  <2>6. UNCHANGED <<password, owner>>
    BY <1>1, <2>1, <2>2, <2>3 DEF password, owner
  <2> QED  BY <2>4, <2>5, <2>6, StatusIsFunction DEF OneTime!Expire, OneTime!Become
<1> QED  BY <1>2, <1>3

\* Requests that stop while they hold tokens lose them.
LEMMA StoppingLoses ==
  ASSUME IInv, UNCHANGED <<accounts, resets>>,
         \A s \in Requests : \/ place'[s] = place[s] /\ input'[s] = input[s]
                             \/ place'[s] = "idle"
  PROVE  \E T \in SUBSET Tokens : OneTime!Lose(T)
<1> DEFINE T == {t \in Tokens : status[t] = "spent" /\ status'[t] # "spent"}
<1>1. \A s \in Requests, t \in Tokens : Holds(s, t)' => Holds(s, t)
  BY DEF Holds
<1>2. ASSUME NEW t \in Tokens
      PROVE  status'[t] = IF t \in T THEN "done" ELSE status[t]
  BY <1>1 DEF status
<1>3. UNCHANGED <<password, owner>>
  BY DEF password, owner
<1>4. status' = [t \in Tokens |-> IF t \in T THEN "done" ELSE status[t]]
  <2> HIDE DEF T
  <2> QED  BY <1>2, StatusIsFunction
<1> QED  BY <1>3, <1>4 DEF OneTime!Lose

LEMMA StepRefines ==
  ASSUME IInv, Unshared, InTime, [Next]_vars
  PROVE  OneTime!Next \/ Stutter
<1>0. HandlersOK /\ AccountsTypeOK /\ Shape
  BY TypesSplit DEF IInv
<1>1. ASSUME NEW r \in Requests, Start(r)
      PROVE  Stutter
  BY <1>1, StartIs, QuietMove DEF IInv, Arrives, tables, password
<1>2. ASSUME NEW r \in Requests, Handle(r)
      PROVE  OneTime!Next \/ Stutter
  <2>1. CASE CreateUser(r)
    BY <2>1, CreateUserIsSignUp DEF OneTime!Next
  <2>2. CASE CreateReset(r)
    BY <2>2, CreateResetIsIssue DEF OneTime!Next
  <2>3. CASE SqliteConsumeReset(r)
    BY <2>3, ConsumeIsSpend DEF OneTime!Next
  <2>4. CASE UpdatePassword(r)
    BY <2>4, UpdateIsSetPassword DEF OneTime!Next
  <2>5. CASE SqliteConsumeVerification(r)
    <3>1. place[r] = "consumeVerification" /\ Stop(r) /\ resets' = resets
      BY <1>0, <2>5, MovesAre DEF SqliteConsumeVerification, At, Verify
    <3>2. password' = password
      <4>1. CASE Verifiable(input[r].token)
        <5>1. PICK u \in Users : accounts[u] # None /\ Verify(r, u)
          BY <2>5, <4>1, TokensKnown DEF SqliteConsumeVerification, IInv
        <5> QED  BY <1>0, <5>1, VerifyEffect DEF password
      <4>2. CASE ~ Verifiable(input[r].token)
        BY <2>5, <4>2 DEF SqliteConsumeVerification, password
      <4> QED  BY <4>1, <4>2
    <3> QED  BY <3>1, <3>2, QuietMove DEF Stop
  <2>6. CASE PgCommitVerification(r)
    <3>1. place[r] = "commitVerification" /\ Verify(r, input[r].user) /\ resets' = resets
      BY <2>6 DEF PgCommitVerification, At
    <3>2. Stop(r)
      BY <1>0, <3>1, MovesAre DEF Verify
    <3>3. password' = password
      <4>1. input[r].user \in Users /\ accounts[input[r].user] # None
        BY <1>0, <3>1 DEF Shape, Seen
      <4> QED  BY <1>0, <3>1, <4>1, VerifyEffect DEF password
    <3> QED  BY <3>1, <3>2, <3>3, QuietMove DEF Stop
  <2>7. CASE PgMarkUsed(r)
    BY <2>7, MarkUsedIsSpend DEF OneTime!Next
  <2>8. CASE \/ CreateVerification(r) \/ MailVerification(r) \/ SkipVerification(r)
             \/ Locked(r) \/ LockedFailsOpen(r) \/ ReadUser(r) \/ ReadUserFails(r)
             \/ RecordFailure(r) \/ Reset(r) \/ LockoutLost(r) \/ IssueToken(r)
             \/ FindUser(r) \/ MailReset(r)
    <3>1. /\ UNCHANGED <<accounts, resets>> /\ OthersStay(r)
          /\ place[r] # "updatePassword" /\ place'[r] # "updatePassword"
      BY <1>0, <2>8, MovesAre DEF CreateVerification, MailVerification, SkipVerification, Locked,
         LockedFailsOpen, ReadUser, ReadUserFails, RecordFailure, Reset, LockoutLost,
         IssueToken, FindUser, MailReset, At, Stop, tables
    <3> QED  BY <3>1, QuietMove DEF password
  <2>9. CASE PgSelectVerification(r) \/ PgSelectReset(r)
    <3>1. place[r] = "consumeVerification" \/ place[r] = "consumeReset"
      BY <2>9 DEF PgSelectVerification, PgSelectReset, At
    <3>2. UNCHANGED <<accounts, resets>>
      BY <2>9 DEF PgSelectVerification, PgSelectReset, tables
    <3>3. OthersStay(r) /\ place'[r] # "updatePassword"
      <4>1. \/ Reply(r, "badToken")
            \/ \E u : GotoWithUser(r, "commitVerification", u) \/ GotoWithUser(r, "markUsed", u)
        <5>1. CASE PgSelectVerification(r)
          BY <5>1 DEF PgSelectVerification
        <5>2. CASE PgSelectReset(r)
          BY <5>2 DEF PgSelectReset
        <5> QED  BY <2>9, <5>1, <5>2
      <4>2. CASE Reply(r, "badToken")
        BY <1>0, <4>2, MovesAre DEF Stop
      <4>3. ASSUME NEW u, NEW p, p \in {"commitVerification", "markUsed"}, GotoWithUser(r, p, u)
            PROVE  OthersStay(r) /\ place'[r] = p
        BY <1>0, <4>3, MovesAre
      <4> QED  BY <4>1, <4>2, <4>3
    <3> QED  BY <3>1, <3>2, <3>3, QuietMove DEF password
  <2> QED  BY <1>2, <2>1, <2>2, <2>3, <2>4, <2>5, <2>6, <2>7, <2>8, <2>9 DEF Handle
<1>3. ASSUME NEW r \in Requests, Fail(r)
      PROVE  OneTime!Next
  <2>1. UNCHANGED <<accounts, resets>>
    BY <1>3 DEF Fail, tables
  <2>2. Stop(r)
    BY <1>0, <1>3, MovesAre
  <2> QED  BY <2>1, <2>2, StoppingLoses DEF OneTime!Next, Stop, OthersStay
<1>4. CASE Restart
  BY <1>4, StoppingLoses DEF OneTime!Next, Restart, tables
<1>5. ASSUME NEW t \in Tokens, Expire(t)
      PROVE  OneTime!Next \/ Stutter
  BY <1>5, ExpireIsExpire DEF OneTime!Next
<1>6. CASE (\E u \in Users : AgeOut(u)) \/ UNCHANGED vars
  <2>1. UNCHANGED <<accounts, resets, place, input>>
    BY <1>6 DEF AgeOut, vars, tables
  <2> QED  BY <2>1, StutterIs DEF Holds, password
<1> QED  BY <1>1, <1>2, <1>3, <1>4, <1>5, <1>6 DEF Next

LEMMA InitRefines == Init => OneTime!Init
  BY DEF Init, OneTime!Init, password, owner, status

LEMMA StepImplements ==
  IInv /\ Unshared /\ InTime /\ [Next]_vars => [OneTime!Next]_(OneTime!vars)
  BY StepRefines DEF Stutter, OneTime!vars

\* With SQLite password resets are one-time: every step is one of
\* OneTimeTokens, or leaves passwords, owners and statuses alone.
THEOREM SqliteImplementsOneTimeTokens ==
  ASSUME MetaDriver = "sqlite"
  PROVE  Spec => ImplementsOneTimeTokens
<1>1. IInv => Unshared /\ InTime
  BY DEF IInv, OneHolder, InTime, Shape
<1> QED  BY <1>1, InitRefines, StepImplements, AccountsInvariant, PTL
            DEF Spec, ImplementsOneTimeTokens, OneTime!Spec

\* With either database they are, as long as no token is presented twice between
\* the SELECT and the UPDATE of Postgres, or expires there.
THEOREM ApartImplementsOneTimeTokens ==
  Spec /\ []ConfirmApart /\ []InTime => ImplementsOneTimeTokens
  BY InitRefines, StepImplements, ApartUnshared, AccountsInvariant, PTL
     DEF Spec, ImplementsOneTimeTokens, OneTime!Spec

\* An address is verified, and a password changed, only by a token that was
\* mailed for it, whatever the database.
THEOREM MailIsProof == Spec => MailProves
<1>1. ASSUME IInv, [Next]_vars, NEW u \in Users, accounts[u] # None
      PROVE  ProvenChange(u)
  <2>1. CASE Spares(u)
    BY <1>1, <2>1 DEF Spares, ProvenChange
  <2>2. ASSUME NEW r \in Requests, SetsPassword(r), u = input[r].user
        PROVE  /\ accounts'[u] # None
               /\ accounts'[u].email = accounts[u].email
               /\ accounts'[u].verified = accounts[u].verified
               /\ LET t == input[r].token IN
                    /\ place[r] = "updatePassword" /\ place'[r] = "idle"
                    /\ t \in mailed /\ resets[t].user = u /\ resets[t].status = "used"
                    /\ accounts'[u].password = input[r].password
    BY <1>1, <2>2 DEF SetsPassword, IInv, Shape, Bound, Presenting, ConfirmPlaces
  <2>3. ASSUME NEW r \in Requests, Verifies(r, u)
        PROVE  /\ accounts'[u] # None
               /\ accounts'[u].email = accounts[u].email
               /\ accounts'[u].password = accounts[u].password
               /\ accounts'[u].verified # accounts[u].verified =>
                    /\ input[r].token \in mailed /\ verifications'[input[r].token] = None
                    /\ verifications[input[r].token] # None
                    /\ verifications[input[r].token].user = u
    <3>1. accounts[u].verified \in BOOLEAN
      BY <1>1 DEF IInv, AccountsTypeOK, Accounts
    <3> QED  BY <2>3, <3>1 DEF Verifies
  <2>4. \/ Spares(u)
        \/ \E r \in Requests : SetsPassword(r) /\ u = input[r].user
        \/ \E r \in Requests : Verifies(r, u)
    BY <1>1, RowsStep DEF IInv, SetsPassword, Verifies
  <2> QED  BY <2>1, <2>2, <2>3, <2>4 DEF ProvenChange
<1>2. IInv /\ [Next]_vars => [\A u \in Users : accounts[u] # None => ProvenChange(u)]_vars
  BY <1>1
<1> QED  BY <1>2, AccountsInvariant, PTL DEF Spec, MailProves

\* Good answers are true, whatever the database and whatever fails.
THEOREM GoodAnswersAreTrue == Spec => AnswersAreTrue
<1>1. ASSUME IInv, [Next]_vars, NEW r \in Requests
      PROVE  TrueAnswers(r)
  <2>0. AccountsTypeOK /\ HandlersOK /\ Shape /\ Bound /\ Proved /\ Owned /\ Fresh
    BY <1>1, TypesSplit DEF IInv
  <2> DEFINE Good == {"created", "token", "verified", "reset"}
  <2>1. ASSUME \A c \in Good : ~ Answers(r, c)
        PROVE  TrueAnswers(r)
    BY <2>1 DEF TrueAnswers
  <2>2. ASSUME NEW x \in Requests, NEW c \in Codes, c \notin Good, Reply(x, c)
        PROVE  TrueAnswers(r)
    BY <2>1, <2>2 DEF Reply, Answers
  <2>3. ASSUME response' = None \/ \A y \in Requests : place'[y] = "idle" => place[y] = "idle"
        PROVE  TrueAnswers(r)
    <3>1. \A c \in Good : [to |-> r, code |-> c] # None
      BY DEF Responses, Codes
    <3> QED  BY <2>1, <2>3, <3>1 DEF Answers
  <2>4. ASSUME NEW x \in Requests, Start(x)
        PROVE  TrueAnswers(r)
    BY <2>3, <2>4 DEF Start, StartSignup, StartVerify, StartLogin, StartReset, StartConfirm,
       Arrive
  <2>5. ASSUME NEW x \in Requests, Handle(x)
        PROVE  TrueAnswers(r)
    <3>1. CASE MailVerification(x) \/ SkipVerification(x)
      <4>1. /\ Reply(x, "created") /\ accounts' = accounts
            /\ place[x] \in {"createVerification", "mailVerification"}
        BY <3>1 DEF MailVerification, SkipVerification, At, tables
      <4>2. accounts'[input[x].user] # None
        BY <2>0, <4>1 DEF Shape, Seen
      <4> QED  BY <4>1, <4>2 DEF Reply, Answers, TrueAnswers
    <3>2. CASE IssueToken(x)
      <4>1. /\ Reply(x, "token") /\ accounts' = accounts /\ place[x] = "issueToken"
            /\ input[x].user \in apiTokens'
        BY <3>2 DEF IssueToken, At
      <4>2. accounts'[input[x].user] # None
        BY <2>0, <4>1 DEF Shape, Seen
      <4> QED  BY <4>1, <4>2 DEF Reply, Answers, TrueAnswers
    <3>3. CASE UpdatePassword(x)
      <4>1. /\ Reply(x, "reset") /\ resets' = resets /\ place[x] = "updatePassword"
        BY <3>3 DEF UpdatePassword, At
      <4>2. /\ accounts'[input[x].user].password = input[x].password
            /\ resets'[input[x].token].status = "used"
        BY <2>0, <3>3, <4>1, UpdatePasswordEffect DEF Bound
      <4> QED  BY <4>1, <4>2 DEF Reply, Answers, TrueAnswers
    <3>4. ASSUME NEW u \in Users, accounts[u] # None, Verify(x, u), input[x].token \in Tokens,
                 verifications[input[x].token] # None => verifications[input[x].token].user = u,
                 verifications[input[x].token] = None => input[x].user = u
          PROVE  TrueAnswers(r)
      <4>1. /\ Reply(x, "verified") /\ accounts'[u].verified
            /\ verifications'[input[x].token] = None
        BY <2>0, <3>4, VerifyEffect
      <4> QED  BY <3>4, <4>1 DEF Reply, Answers, TrueAnswers
    <3>5. CASE SqliteConsumeVerification(x)
      <4>1. CASE Verifiable(input[x].token)
        BY <2>0, <3>4, <3>5, <4>1, TokensKnown DEF SqliteConsumeVerification
      <4>2. CASE ~ Verifiable(input[x].token)
        BY <2>2, <3>5, <4>2 DEF SqliteConsumeVerification, Codes
      <4> QED  BY <4>1, <4>2
    <3>6. CASE PgCommitVerification(x)
      <4>1. place[x] = "commitVerification" /\ Verify(x, input[x].user)
        BY <3>6 DEF PgCommitVerification, At
      <4>2. /\ input[x].user \in Users /\ accounts[input[x].user] # None
            /\ input[x].token \in Tokens
            /\ verifications[input[x].token] # None =>
                  verifications[input[x].token].user = input[x].user
        BY <2>0, <4>1 DEF Shape, Seen, Bound, AccountsTypeOK, Inputs
      <4> QED  BY <3>4, <4>1, <4>2
    <3>7. CASE \/ CreateUser(x) \/ PgSelectVerification(x) \/ Locked(x) \/ RecordFailure(x)
               \/ LockoutLost(x) \/ FindUser(x) \/ SqliteConsumeReset(x) \/ PgSelectReset(x)
               \/ CreateVerification(x) \/ LockedFailsOpen(x) \/ ReadUser(x)
               \/ ReadUserFails(x) \/ Reset(x) \/ CreateReset(x) \/ PgMarkUsed(x)
      <4>1. \/ response' = None
            \/ \E c \in Codes \ Good : Reply(x, c)
        BY <3>7 DEF CreateUser, PgSelectVerification, Locked, RecordFailure, LockoutLost, FindUser,
           SqliteConsumeReset, PgSelectReset, CreateVerification, LockedFailsOpen, ReadUser,
           ReadUserFails, Reset, CreateReset, PgMarkUsed, Goto, GotoWithUser, Codes
      <4> QED  BY <2>2, <2>3, <4>1
    <3>8. CASE MailReset(x)
      BY <2>2, <3>8 DEF MailReset, Codes
    <3> QED  BY <2>5, <3>1, <3>2, <3>3, <3>4, <3>5, <3>6, <3>7, <3>8 DEF Handle
  <2>6. CASE \/ \E x \in Requests : Fail(x)
             \/ \E u \in Users : AgeOut(u)
             \/ \E t \in Tokens : Expire(t)
             \/ Restart
    BY <2>3, <2>6 DEF Fail, AgeOut, Expire, Restart
  <2>7. CASE UNCHANGED vars
    BY <2>3, <2>7 DEF vars
  <2> QED  BY <1>1, <2>4, <2>5, <2>6, <2>7 DEF Next
<1>2. IInv /\ [Next]_vars => [\A r \in Requests : TrueAnswers(r)]_vars
  BY <1>1
<1> QED  BY <1>2, AccountsInvariant, PTL DEF Spec, AnswersAreTrue
=============================================================================
