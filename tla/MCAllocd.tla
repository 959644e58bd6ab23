------------------------------ MODULE MCAllocd ------------------------------
(***************************************************************************)
(* allocd with two users for TLC: the constants are in the configurations. *)
(***************************************************************************)
EXTENDS Allocd
=============================================================================
