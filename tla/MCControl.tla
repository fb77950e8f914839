------------------------------ MODULE MCControl ------------------------------
(***************************************************************************)
(* A small Control Center for TLC.                                         *)
(***************************************************************************)
EXTENDS ControlProperties
=============================================================================
