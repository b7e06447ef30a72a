---------------------------- MODULE MCInventory ----------------------------
(***************************************************************************)
(* Inventory with two updates, a bulk change and a lookup at once.         *)
(***************************************************************************)
EXTENDS Inventory

CONSTANTS u1, u2, b1, l1, t1
=============================================================================
