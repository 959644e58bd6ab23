------------------------------ MODULE MCConfUi ------------------------------
(***************************************************************************)
(* The confirmation UI with two sessions for TLC: the constants are in the *)
(* configurations.                                                         *)
(***************************************************************************)
EXTENDS ConfUi
=============================================================================
