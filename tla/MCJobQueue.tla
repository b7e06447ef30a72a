------------------------------ MODULE MCJobQueue ------------------------------
(***************************************************************************)
(* JobQueue on a small instance.                                           *)
(***************************************************************************)
EXTENDS JobQueue

CONSTANTS w1, w2, c1, c2, clone, check
=============================================================================
