---------------------------- MODULE MCImageStore ----------------------------
(***************************************************************************)
(* ImageStore on a small instance.                                         *)
(***************************************************************************)
EXTENDS ImageStore, TLC

CONSTANTS r1, r2, h1

Symmetry == Permutations(Requests)
=============================================================================
