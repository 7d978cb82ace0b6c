------------------------------ MODULE LedgerReads ------------------------------
(***************************************************************************)
(* What the registry promises to those who download: a download of a       *)
(* version, or of a plugin's latest version, answers as if it had looked   *)
(* at the whole VersionLedger at a single moment between its arrival and   *)
(* its answer.  Downloads.tla, which reads two tables and the blob store   *)
(* at different times, is shown to implement it.                           *)
(***************************************************************************)
EXTENDS VersionLedger

CONSTANTS Readers,      \* downloads being served at once
          Latest        \* the version string that stands for the latest

VARIABLES asks,         \* what each download still asks for, in a set or {}
          found,        \* the tarball it has found, in a set or {}
          reply         \* its answer

readerVars == <<asks, found, reply>>

Questions == [plugin : Plugins, version : Versions \cup {Latest}]

NoReply == [code |-> "none", checksum |-> None, body |-> None]

ReadsInit == /\ Init
             /\ asks = [d \in Readers |-> {}]
             /\ found = [d \in Readers |-> {}]
             /\ reply = [d \in Readers |-> NoReply]

Ask(d) ==
    /\ asks[d] = {} /\ found[d] = {}
    /\ \E question \in Questions : asks' = [asks EXCEPT ![d] = {question}]
    /\ reply' = [reply EXCEPT ![d] = NoReply]
    /\ UNCHANGED found

\* What the ledger has, now, in answer to a question.
Now(question) ==
    LET p == question.plugin
        v == IF question.version = Latest THEN latest[p] ELSE question.version
    IN IF v = None THEN None ELSE served[<<p, v>>]

\* The single moment.
Look(d) ==
    \E question \in asks[d] :
        /\ Now(question) # None
        /\ found' = [found EXCEPT ![d] = {Now(question)}]
        /\ asks' = [asks EXCEPT ![d] = {}]
        /\ UNCHANGED reply

Close(d, answer) == /\ asks' = [asks EXCEPT ![d] = {}]
                    /\ found' = [found EXCEPT ![d] = {}]
                    /\ reply' = [reply EXCEPT ![d] = answer]

\* There is nothing: 404.
Miss(d) == \E question \in asks[d] :
               Now(question) = None /\ Close(d, [NoReply EXCEPT !.code = "notFound"])

\* 200, with the checksum of what was found as a header and it as the body.
Answer(d) == \E c \in found[d] : Close(d, [code |-> "ok", checksum |-> c, body |-> c])

\* The download breaks off.
Lose(d) == /\ asks[d] # {} \/ found[d] # {}
           /\ Close(d, [NoReply EXCEPT !.code = "fault"])

ReadsNext ==
    \/ UNCHANGED readerVars /\ Next
    \/ /\ UNCHANGED vars
       /\ \E d \in Readers : Ask(d) \/ Look(d) \/ Miss(d) \/ Answer(d) \/ Lose(d)

ReadsSpec == ReadsInit /\ [][ReadsNext]_<<vars, readerVars>>
=============================================================================
