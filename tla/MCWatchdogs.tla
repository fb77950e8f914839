----------------------------- MODULE MCWatchdogs -----------------------------
(***************************************************************************)
(* A small installation for TLC.                                           *)
(***************************************************************************)
EXTENDS WatchdogProperties
=============================================================================
