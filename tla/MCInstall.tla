------------------------------ MODULE MCInstall ------------------------------
(***************************************************************************)
(* A small instance of Install for TLC: two plugins of one name in         *)
(* different scopes, so with one default directory, whose archives reach   *)
(* the limit exactly, go over it, and hold an empty file after it.         *)
(***************************************************************************)
EXTENDS Install, TLC

CONSTANTS k1, k2, ann_x, bob_x, a1, a2, b1, b2, b3, b4, dx, other, f, g, v1, v2

MCDefaultDir == [p \in Plugins |-> dx]
MCOffers == ann_x :> {a1, a2} @@ bob_x :> {b1, b2, b3, b4}

File(path, data, size) == [kind |-> "file", path |-> path, data |-> data, size |-> size]
MCEntries ==
       a1 :> <<File(f, v1, 1), File(g, v1, 1)>>                     \* fits exactly
    @@ a2 :> <<[File(f, v1, 0) EXCEPT !.kind = "dir"], File(f, v2, 1)>>  \* drops g
    @@ b1 :> <<File(f, v2, 2), File(g, v2, 0)>>                     \* empty file too late
    @@ b2 :> <<File(g, v1, 1), File(g, v2, 2)>>                     \* too large
    @@ b3 :> <<File(g, v2, 1), [File(f, v2, 0) EXCEPT !.kind = "other"]>>
    @@ b4 :> <<File(g, v2, 2)>>                                     \* fits

Symmetry == Permutations(Commands)
=============================================================================
