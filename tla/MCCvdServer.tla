---------------------------- MODULE MCCvdServer ----------------------------
(* Instances of CvdServer for TLC. *)
EXTENDS CvdServer
=============================================================================
