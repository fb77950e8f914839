-------------------------- MODULE ControlProperties --------------------------
(***************************************************************************)
(* What must hold of the Control Center's lease, admission, jobs and Full  *)
(* Simulation.                                                             *)
(***************************************************************************)
EXTENDS ControlCenter

(* The lease is a one-writer lease (server.py, _host_claim to              *)
(* _host_take_control): control changes hands only through nobody, or by   *)
(* the override, whatever heartbeats and releases of other pages arrive    *)
(* late.                                                                   *)
OneWriterPromised == Promise!OneWriter

(* A host that has gone (page closed with its release lost, or asleep)     *)
(* does not keep control for ever: its lease runs out, whatever the other  *)
(* pages send (HOST_LEASE_TIMEOUT_SEC).                                    *)
Gone(c) == tab[c] \in {"closed", "asleep"}

NoLockout == \A c \in Clients : (IsHost(c) /\ Gone(c)) ~> (~IsHost(c) \/ ~Gone(c))

(* Two long jobs that somebody waits for never run at once, and a hardware *)
(* test runs beside another job or test only after the start-up thread     *)
(* repeated its own test, which takes and clears the test flag unasked.    *)
(* Not so for scripts nobody waits for any more (deserted, orphan): their  *)
(* thread gave up on them, or their process was restarted.                 *)
JobsAlone ==
    /\ Cardinality(working) <= 1
    /\ Cardinality(working \cup testing) > 1 => retried

(* A restart of the Control Center is decided only when no job is under    *)
(* way that it would cut (_reader_thread's last step, and the button).     *)
(* What is accepted in the two seconds after it is cut: RestartCutsNoJob   *)
(* does not hold.                                                          *)
RestartDecidedAtRest == [][pending' /\ ~pending => working' = {} /\ threads' = {}]_vars

RestartCutsNoJob == pending => working = {}

(* Whatever a job does once its thread runs, it stops locking the others   *)
(* out (the try/finally of every job's thread); for ever locked is what    *)
(* failed between its flag and its thread.                                 *)
JobsEnd == \A k \in Kinds : (Laboured /\ k \in flag) ~> (k \notin flag \/ k \in stuck)

(* Every train field Full Simulation moved to the simulator is on record   *)
(* for being given back, also after a failed restore or a second start: in *)
(* memory as long as the process lives, on disk once a save came through.  *)
(* What no save did is lost when the process ends.                         *)
TrainsRemembered ==
    stage = "free" => swapped \ lost \subseteq memory /\ swapped \ (lost \cup unsaved) \subseteq disk

(* Off is off: with Full Simulation off, this device's PiFinder is not     *)
(* injected by what it left behind, after a toggle or a crash; unless the  *)
(* clear did not come through, or a seed was still in PiFinder's queue.    *)
OffIsOff ==
    stage = "free" /\ ~wanted /\ Here \in active => Here \in loose

(* Once on, a dead injector comes back (_truth_injector_watchdog).         *)
InjectorRevived == wanted ~> (Injecting \/ ~wanted)
=============================================================================
