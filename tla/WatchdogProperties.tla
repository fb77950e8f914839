-------------------------- MODULE WatchdogProperties --------------------------
(***************************************************************************)
(* What must hold of the Control Center's watchdogs.                       *)
(***************************************************************************)
EXTENDS Watchdogs

(* Whatever was chosen comes to be: the repairs, one per tick, lead to a   *)
(* driver that runs, is connected and linked to connected devices, and is  *)
(* in the mode chosen last (_mount_bridge_readiness_self_heal).  It is not *)
(* asked of them while the user wants it otherwise (maintenance, a         *)
(* disconnect, the emergency stop), while the mount is not in the profile, *)
(* or the driver hangs under a hold (see RestartedAfterGuiding).           *)
Settled ==
    /\ Reachable
    /\ desired.mount # None => driver.mount = desired.mount /\ devices.mount /\ devices.pifinder # "off"
    /\ desired.mode # None => driver.mode = desired.mode

Excused ==
    \/ maintenance.on \/ driver.state = "absent" \/ desired.connected = "no" \/ stopped
    \/ "mount" \notin listed
    \/ driver.state = "hung" /\ held

Chose == focus \in {"driver", "guiding"} /\ (desired.mount # None \/ desired.mode # None)

DriverReady == Chose ~> (Settled \/ Excused \/ ~Chose)

(* The hold follows the guiding: it is on soon after Ekos guides, and off  *)
(* again after it has rested, also when the Control Center restarted in    *)
(* between (_guiding_hold_watchdog_tick).  A hold that the driver lost by  *)
(* a reconnect is not renewed while the watchdog believes in it.           *)
Ask == focus = "guiding" /\ Reachable

HoldFollowsGuiding ==
    /\ (Ask /\ ekos = "guiding" /\ ~aligning)
           ~> (driver.hold \/ ekos # "guiding" \/ aligning \/ ~Reachable \/ held)
    /\ (Ask /\ ekos = "safe" /\ driver.hold)
           ~> (~driver.hold \/ ekos # "safe" \/ ~Reachable)

(* A restart of pifinder.service leaves PiFinder LX200 connected to a dead *)
(* socket; the link is renewed, also when the service restarts again while *)
(* that goes on (_pifinder_lx200_auto_reconnect).  Only a restart of the   *)
(* Control Center in between makes it take the dead link for a good one.   *)
LinkRenewed ==
    (focus = "link" /\ devices.pifinder = "stale")
        ~> (devices.pifinder # "stale" \/ assumed \/ maintenance.on \/ driver.state # "ready")

(* A profile that went down comes back by itself, however the switches and *)
(* driver changes that were under way ended, unless starting it failed     *)
(* again and again (_autostart_cold_profile, and the finally of each       *)
(* switch).                                                                *)
ProfileReturns ==
    (focus = "profiles" /\ server = None /\ last.active # None)
        ~> (server # None \/ maintenance.on \/ cold.gaveUp)

(* pifinder.service does not run here while PiFinder LX200 is remote, and  *)
(* one stopped for that reason is started again once it is local, also if  *)
(* the Control Center restarted in between                                 *)
(* (_pifinder_service_sync_with_lx200_target).                             *)
Remote == server # None /\ profile[server].remote
Local == server # None /\ ~profile[server].remote

ServiceFollowsTarget ==
    /\ (focus = "service" /\ Remote /\ service.active) ~> (~Remote \/ ~service.active)
    /\ (focus = "service" /\ Local /\ service.cut) ~> (~Local \/ ~service.cut)

(* What the code says of the emergency stop: the driver is decoupled, so   *)
(* that nothing sends the mount off again (server.py:6979-6986).  It does  *)
(* not hold: the wish for the old mode stays, and the readiness watchdog's *)
(* next ticks couple the driver to it anew.                                *)
StopStaysDecoupled == stopped /\ driver.state = "ready" => driver.mode # "auto"

(* What the code says of a hung driver under a hold: the restart is only   *)
(* put off until guiding stops (server.py:2997-3009).                      *)
RestartedAfterGuiding ==
    (Chose /\ driver.state = "hung" /\ ekos = "safe")
        ~> (driver.state # "hung" \/ ekos # "safe" \/ maintenance.on)
=============================================================================
