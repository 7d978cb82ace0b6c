----------------------------- MODULE MCDownloads -----------------------------
(***************************************************************************)
(* Small instances of Downloads for TLC.                                   *)
(***************************************************************************)
EXTENDS Downloads, MCRegistry

CONSTANTS d1, d2

\* Downloads are interchangeable too.
DownloadSymmetry == Symmetry \cup Permutations(Downloads)
=============================================================================
