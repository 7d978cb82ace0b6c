------------------------------- MODULE MCLimits -------------------------------
(***************************************************************************)
(* A small instance of Limits for TLC: two replicas, one a tick ahead.     *)
(***************************************************************************)
EXTENDS Limits, TLC

CONSTANTS c1, c2

MCSkew == c1 :> 0 @@ c2 :> 1
=============================================================================
