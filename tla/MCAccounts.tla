----------------------------- MODULE MCAccounts -----------------------------
(***************************************************************************)
(* Small instances of Accounts for TLC.                                    *)
(***************************************************************************)
EXTENDS Accounts, TLC

CONSTANTS r1, r2, r3, ann, bob, e1, e2, p1, p2, t1, t2, t3

AccountSymmetry == Permutations(Requests) \cup Permutations(Tokens)
                   \cup Permutations(Passwords) \cup Permutations(Users)
                   \cup Permutations(Emails)
=============================================================================
