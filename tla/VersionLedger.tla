---------------------------- MODULE VersionLedger ----------------------------
(***************************************************************************)
(* What the registry promises about published versions, with no request,   *)
(* no blob store and no database: a write-once table from a plugin version *)
(* to the tarball a download of it delivers, and for every plugin the      *)
(* version published last.  Registry.tla is shown to implement it.         *)
(***************************************************************************)

CONSTANTS Plugins,      \* scope/name pairs
          Versions,     \* version strings
          Contents,     \* tarballs, up to equality of their bytes
          None          \* "no such row"

VARIABLES served,       \* the tarball delivered for a plugin version
          latest        \* the version "latest" stands for

vars == <<served, latest>>

Init == /\ served = [k \in Plugins \X Versions |-> None]
        /\ latest = [p \in Plugins |-> None]

\* A version becomes visible at once with its tarball, only if it was never
\* published, and becomes the plugin's latest.
Record(p, v, c) ==
    /\ served[<<p, v>>] = None
    /\ served' = [served EXCEPT ![<<p, v>>] = c]
    /\ latest' = [latest EXCEPT ![p] = v]

Next == \E p \in Plugins, v \in Versions, c \in Contents : Record(p, v, c)

Spec == Init /\ [][Next]_vars
=============================================================================
