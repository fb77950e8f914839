-------------------------------- MODULE MCAbort --------------------------------
(***************************************************************************)
(* The Mount Bridge with its emergency-stop history on the small sky of    *)
(* MCMountBridge.                                                          *)
(***************************************************************************)
EXTENDS MCMountBridge, AbortHistory
================================================================================
