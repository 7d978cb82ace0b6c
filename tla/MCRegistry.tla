------------------------------ MODULE MCRegistry ------------------------------
(***************************************************************************)
(* Small instances of Registry for TLC: who publishes what.                *)
(***************************************************************************)
EXTENDS Registry, TLC

CONSTANTS r1, r2, r3, ann, bob, c1, c2, c3, c4

\* c1 and c2 are two tarballs of one version, c3 is the plugin's next version,
\* and c4's plugin.json gives a version that is not a semantic version.
MCManifest == [c \in Contents |->
                 <<"plug", CASE c = c3 -> "2.0.0" [] c = c4 -> "latest" [] OTHER -> "1.0.0">>]

\* Requests are interchangeable, and so are the two tarballs of version 1.0.0.
RequestSymmetry == Permutations(Requests)
Symmetry == RequestSymmetry \cup Permutations({c1, c2})
=============================================================================
