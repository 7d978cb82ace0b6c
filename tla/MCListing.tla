------------------------------ MODULE MCListing ------------------------------
(***************************************************************************)
(* A small instance of Listing for TLC: two plugins of two versions, two   *)
(* readers.                                                                *)
(***************************************************************************)
EXTENDS Listing

CONSTANTS r1, r2, p1, p2
=============================================================================
