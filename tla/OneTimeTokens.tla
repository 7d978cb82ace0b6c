---------------------------- MODULE OneTimeTokens ----------------------------
(***************************************************************************)
(* What password resets promise: a token that was issued for a user lets   *)
(* one password through, once, while it is live, and nothing else changes  *)
(* a password.                                                             *)
(***************************************************************************)
CONSTANTS Users, Passwords, Tokens, None

VARIABLES
    password,   \* [Users -> Passwords \cup {None}]
    owner,      \* [Tokens -> Users \cup {None}]
    status      \* [Tokens -> {"new", "live", "expired", "spent", "done"}]

vars == <<password, owner, status>>

Init == /\ password = [u \in Users |-> None]
        /\ owner = [t \in Tokens |-> None]
        /\ status = [t \in Tokens |-> "new"]

Become(t, from, to) == /\ status[t] = from
                       /\ status' = [status EXCEPT ![t] = to]

SignUp(u) == /\ password[u] = None
             /\ \E p \in Passwords : password' = [password EXCEPT ![u] = p]
             /\ UNCHANGED <<owner, status>>

Issue(t, u) == /\ Become(t, "new", "live")
               /\ password[u] # None
               /\ owner' = [owner EXCEPT ![t] = u]
               /\ UNCHANGED password

Expire(t) == Become(t, "live", "expired") /\ UNCHANGED <<password, owner>>

Spend(t) == Become(t, "live", "spent") /\ UNCHANGED <<password, owner>>

\* A token that was spent lets its password through ...
SetPassword(t) == /\ Become(t, "spent", "done")
                  /\ \E p \in Passwords : password' = [password EXCEPT ![owner[t]] = p]
                  /\ UNCHANGED owner

\* ... or is lost: its request failed, or a killed server lost many at once.
Lose(T) == /\ \A t \in T : status[t] = "spent"
           /\ status' = [t \in Tokens |-> IF t \in T THEN "done" ELSE status[t]]
           /\ UNCHANGED <<password, owner>>

Next == \/ \E u \in Users : SignUp(u)
        \/ \E t \in Tokens : \/ \E u \in Users : Issue(t, u)
                             \/ Expire(t) \/ Spend(t) \/ SetPassword(t)
        \/ \E T \in SUBSET Tokens : Lose(T)

Spec == Init /\ [][Next]_vars
=============================================================================
