------------------------------ MODULE MCUitApi ------------------------------
(***************************************************************************)
(* UitApi on a small instance: two of the background workers stand for     *)
(* all six, whose lifecycle is the same.                                   *)
(***************************************************************************)
EXTENDS UitApi

CONSTANTS r1, t1
=============================================================================
