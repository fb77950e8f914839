------------------------------ MODULE AbortHistory ------------------------------
(***************************************************************************)
(* The Mount Bridge with a history variable: has the operator stopped a    *)
(* slew, with no push-to still on its way, and not asked for anything      *)
(* since?                                                                  *)
(***************************************************************************)
EXTENDS BridgeProperties

VARIABLE stopped

StopInit == Init /\ stopped = FALSE
NothingAsked == tgt.wire = <<>> /\ tgt.pending = "none" /\ ~fwd.awaiting
StopNext ==
    \/ AbortMount /\ stopped' = (MountSlewing /\ NothingAsked)
    \/ (Instruct \/ SomePushTo) /\ stopped' = FALSE
    \/ (Tick \/ World) /\ UNCHANGED stopped
StopSpec == StopInit /\ [][StopNext]_<<vars, stopped>>

(* ABORT_MOUNT is the emergency stop, "independent of [...] any            *)
(* in-progress settle-retry cycle": the mount is not sent off again until  *)
(* the operator asks for something.                                        *)
StaysStopped == [][stopped /\ stopped' => Sent("TRACK") = {}]_<<vars, stopped>>
================================================================================
