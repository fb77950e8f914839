------------------------------ MODULE Readiness ------------------------------
(***************************************************************************)
(* The readiness watchdog: every five seconds it compares one snapshot of  *)
(* Mount Bridge with what the user last chose, and hands the first repair  *)
(* that is due to a single background thread, which acts later and by then *)
(* on newer wishes; beside it the watchdog that reconnects PiFinder LX200  *)
(* after a restart of pifinder.service.                                    *)
(***************************************************************************)
EXTENDS Profiles, GuidingHold

CONSTANTS Mount,     \* the mount's driver
          Fails,     \* _MB_READINESS_CONSECUTIVE_FAILS_BEFORE_RESTART and its kin
          Restarts   \* _MB_READINESS_MAX_RESTARTS_PER_WINDOW

ASSUME ReadinessAssumption == Fails \in Nat \ {0} /\ Restarts \in Nat \ {0}

VARIABLES devices,   \* PiFinder LX200 (off, live, or on over a dead socket) and the mount
          listed,    \* what the running profile lists: bridge, mount
          sim,       \* PiFinder Simulator follows the linked mount
          seen,      \* the snapshot a tick works on, or None
          count,     \* consecutive failures, by check
          restarts,  \* _mb_readiness_restart_times still in the window
          gaveUp,    \* _mb_readiness_gave_up
          job,       \* what _mb_readiness_retrier is about to do
          starts,    \* pifinder.service's start time
          healed,    \* _pifinder_lx200_healed_for_start
          rejob,     \* the start its reconnect was triggered for, or None
          rejoined,  \* and whether it has connected and is about to confirm that
          assumed    \* a link was dead when the first look took it for healthy

linkVars == <<starts, healed, rejob, rejoined, assumed>>

readinessVars == <<desired, driver, devices, listed, sim, seen, count, restarts, gaveUp, job, linkVars>>

Modes == {"off", "verify", "auto"}

Repairs == {"none", "restart", "connect", "resync", "link", "pifinder", "mount",
            "couple", "default", "follow"}

Checks == {"running", "desync", "follow"}

DriverStates == [state : {"absent", "hung", "ready"}, connected : BOOLEAN, mode : Modes,
                 mount : {None, Mount}, hold : BOOLEAN]

Silent == [answers |-> FALSE]

Halves == [answers : {TRUE}, connected : BOOLEAN, mode : Modes, link : {None, Mount}]

Snapshots == {Silent} \cup Halves
             \cup [answers : {TRUE}, connected : BOOLEAN, mode : Modes, link : {None, Mount},
                   pifinder : BOOLEAN, mount : BOOLEAN]

ReadinessTypeOK ==
    /\ desired \in [mount : {None, Mount}, mode : {None} \cup Modes, connected : {"any", "yes", "no"}]
    /\ driver \in DriverStates
    /\ devices \in [pifinder : {"off", "live", "stale"}, mount : BOOLEAN]
    /\ listed \subseteq {"bridge", "mount"}
    /\ sim \in BOOLEAN
    /\ seen = None \/ seen \in Snapshots
    /\ count \in [Checks -> 0..Fails]
    /\ restarts \in 0..Restarts /\ gaveUp \in BOOLEAN /\ job \in Repairs
    /\ starts \in Nat /\ healed \in Nat \cup {None} /\ rejob \in Nat \cup {None}
    /\ rejoined \in BOOLEAN /\ assumed \in BOOLEAN

\* A fresh installation, or one whose mount and mode were chosen before.
ReadinessInit ==
    /\ desired \in {[mount |-> None, mode |-> None, connected |-> "any"],
                    [mount |-> Mount, mode |-> "auto", connected |-> "yes"]}
    /\ driver = [state |-> "ready", connected |-> TRUE, mount |-> None, hold |-> FALSE,
                 mode |-> IF desired.mode = None THEN "off" ELSE desired.mode]
    /\ devices = [pifinder |-> "live", mount |-> TRUE]
    /\ listed = {"bridge", "mount"} /\ sim \in BOOLEAN
    /\ seen = None /\ count = [c \in Checks |-> 0]
    /\ restarts = 0 /\ gaveUp = FALSE /\ job = "none"
    /\ starts = 1 /\ healed = None /\ rejob = None
    /\ rejoined = FALSE /\ assumed = FALSE

----------------------------------------------------------------------------
\* The tick: it queries the driver, then the two devices, then come the checks,
\* on whatever has changed since.

Poll ==
    /\ seen = None /\ driver.state # "absent"
    /\ seen' = IF driver.state = "hung" THEN Silent
               ELSE [answers |-> TRUE, connected |-> driver.connected, mode |-> driver.mode,
                     link |-> driver.mount]
    /\ UNCHANGED <<desired, driver, devices, listed, sim, count, restarts, gaveUp, job, linkVars>>

PollDevices ==
    /\ seen \in Halves
    /\ seen' = IF driver.state = "absent" THEN None
               ELSE [answers |-> TRUE, connected |-> seen.connected, mode |-> seen.mode,
                     link |-> seen.link, pifinder |-> devices.pifinder # "off",
                     mount |-> devices.mount]
    /\ UNCHANGED <<desired, driver, devices, listed, sim, count, restarts, gaveUp, job, linkVars>>

\* Check 0: a mount that is live in the profile, and nothing chosen yet.
Wish(asked) ==
    IF asked /\ role # "client" /\ desired.mount = None /\ desired.mode = None
       /\ "mount" \in listed /\ devices.mount
    THEN [desired EXCEPT !.mount = Mount] ELSE desired

\* Checks 2 to 6: the first repair the snapshot calls for.
Due(asked, shadow) ==
    IF ~seen.connected THEN IF desired.connected = "no" THEN "none" ELSE "connect"
    ELSE IF asked /\ "bridge" \notin listed THEN IF role = "client" THEN "none" ELSE "resync"
    ELSE IF Wish(asked).mount # None /\ asked /\ "mount" \notin listed THEN "none"
    ELSE IF Wish(asked).mount # None /\ seen.link # Wish(asked).mount THEN "link"
    ELSE IF Wish(asked).mount # None /\ ~seen.pifinder THEN "pifinder"
    ELSE IF Wish(asked).mount # None /\ ~seen.mount THEN "mount"
    ELSE IF desired.mode # None /\ seen.mode # desired.mode THEN "couple"
    ELSE IF desired.mode = None /\ seen.mode = "off" THEN "default"
    ELSE IF seen.link = None \/ shadow THEN "none"
    ELSE IF sim THEN "done" ELSE "follow"

\* _BackgroundRetrier.trigger: one repair at a time, others are dropped.
Trigger(repair) == job' = IF job = "none" THEN repair ELSE job

OnceMore(n) == n + 1
Once(n) == IF n < Fails THEN n + 1 ELSE Fails

\* No restart under a hold that is believed to be on.
MayRestart == ~held

\* Check 1: no answer, three times running; a few restarts, then no more
\* until the window has moved on.
HealSilent(asked) ==
    LET n == Once(count["running"])
        due == n = Fails /\ restarts < Restarts /\ MayRestart
        starting == due /\ job = "none"
    IN IF Wish(asked).mount = None /\ Wish(asked).mode = None
       THEN count' = [count EXCEPT !["running"] = 0] /\ UNCHANGED <<restarts, gaveUp, job>>
       ELSE /\ count' = [count EXCEPT !["running"] = IF starting THEN 0 ELSE n]
            /\ gaveUp' = (gaveUp \/ (n = Fails /\ restarts = Restarts))
            /\ restarts' = IF starting THEN restarts + 1 ELSE restarts
            /\ IF due THEN Trigger("restart") ELSE UNCHANGED job

\* A profile that lost its record of the bridge is put right at the third
\* tick; a simulator that will not follow is left alone after the second try.
HealFound(asked, repair) ==
    LET n == [count EXCEPT !["running"] = 0,
                           !["desync"] = IF ~asked \/ ~seen.connected THEN @
                                         ELSE IF repair = "resync" THEN Once(@) ELSE 0,
                           !["follow"] = IF repair = "follow" THEN Once(@)
                                         ELSE IF repair = "done" THEN 0 ELSE @]
        acts == \/ repair \in {"connect", "link", "pifinder", "mount", "couple", "default"}
                \/ repair = "resync" /\ n["desync"] = Fails
                \/ repair = "follow" /\ n["follow"] < Fails
    IN /\ gaveUp' = FALSE
       /\ count' = IF repair = "resync" /\ acts /\ job = "none" THEN [n EXCEPT !["desync"] = 0] ELSE n
       /\ IF acts THEN Trigger(repair) ELSE UNCHANGED job
       /\ UNCHANGED restarts

\* _mount_bridge_readiness_self_heal; asked: the Web Manager answers, shadow:
\* Shadow Sync drives the simulator.
Heal(asked, shadow) ==
    /\ seen \in Snapshots \ Halves
    /\ seen' = None
    /\ IF maintenance.on THEN UNCHANGED <<desired, count, restarts, gaveUp, job>>
       ELSE /\ desired' = Wish(asked)
            /\ IF seen.answers THEN HealFound(asked, Due(asked, shadow)) ELSE HealSilent(asked)
    /\ UNCHANGED <<driver, devices, listed, sim, linkVars>>

WindowPasses ==
    /\ restarts > 0 /\ restarts' = restarts - 1
    /\ UNCHANGED <<desired, driver, devices, listed, sim, seen, count, gaveUp, job, linkVars>>

----------------------------------------------------------------------------
\* The repair itself, in its thread.

StillInFlight == UNCHANGED <<seen, count, restarts, gaveUp, job, linkVars>>

Repaired ==
    /\ job' = "none"
    /\ UNCHANGED <<seen, count, restarts, gaveUp, linkVars>>

\* restart_mount_bridge_driver; the link comes back if it was saved.  Without
\* indiserver the thread hangs on the FIFO.
DriverRestarts(saved) ==
    /\ job = "restart" /\ driver.state # "absent"
    /\ driver' = [driver EXCEPT !.state = "ready", !.connected = FALSE, !.hold = FALSE,
                                !.mount = IF saved THEN @ ELSE None]
    /\ Repaired /\ UNCHANGED <<desired, devices, listed, sim>>

RestartFails ==
    /\ job = "restart" /\ driver.state = "hung"
    /\ Repaired /\ UNCHANGED <<desired, driver, devices, listed, sim>>

\* Connecting releases a hold; a connected driver takes no notice.
Connected == IF driver.connected THEN driver
             ELSE [driver EXCEPT !.connected = TRUE, !.hold = FALSE]

BridgeRepair ==
    /\ job \in {"connect", "link", "couple", "default"}
    /\ LET able == IF job \in {"connect", "link"} THEN driver.state = "ready" ELSE Reachable IN
           driver' = IF ~able THEN driver
                     ELSE IF job = "connect" THEN Connected
                     ELSE IF job = "link" THEN [driver EXCEPT !.mount = desired.mount]
                     ELSE [driver EXCEPT !.mode = IF job = "couple" THEN desired.mode ELSE "verify"]
    /\ desired' = IF job = "default" /\ Reachable THEN [desired EXCEPT !.mode = "verify"] ELSE desired
    /\ Repaired /\ UNCHANGED <<devices, listed, sim>>

OtherRepair ==
    /\ job \in {"resync", "pifinder", "mount"}
    /\ listed' = IF job = "resync" THEN listed \cup {"bridge"} ELSE listed
    /\ devices' = IF driver.state = "absent" THEN devices
                  ELSE IF job = "pifinder" /\ devices.pifinder = "off"
                  THEN [devices EXCEPT !.pifinder = "live"]
                  ELSE IF job = "mount" /\ desired.mount # None THEN [devices EXCEPT !.mount = TRUE]
                  ELSE devices
    /\ Repaired /\ UNCHANGED <<desired, driver, sim>>

\* A simulator of an old build takes no notice of what it is told to follow.
FollowRepair ==
    /\ job = "follow"
    /\ sim' \in {sim, TRUE}
    /\ Repaired /\ UNCHANGED <<desired, driver, devices, listed>>

----------------------------------------------------------------------------
Reconnecting == UNCHANGED <<desired, driver, listed, sim, seen, count, restarts, gaveUp, job>>

\* _pifinder_lx200_auto_reconnect: what it heals is the start it saw when it
\* triggered the reconnect, not the one that is current when that succeeds.

ReconnectTick ==
    /\ ~maintenance.on /\ driver.state = "ready" /\ healed # starts
    /\ IF healed = None
       THEN healed' = starts /\ assumed' = (devices.pifinder = "stale") /\ UNCHANGED rejob
       ELSE rejob = None /\ rejob' = starts /\ UNCHANGED <<healed, assumed>>
    /\ UNCHANGED <<starts, rejoined, devices>> /\ Reconnecting

\* CONNECT is sent, and takes or not.
Rejoin ==
    /\ rejob # None /\ ~rejoined /\ driver.state # "absent"
    /\ \E on \in {"live", "off"} : devices' = [devices EXCEPT !.pifinder = on]
    /\ rejoined' = TRUE
    /\ UNCHANGED <<starts, healed, rejob, assumed>> /\ Reconnecting

HealsCurrent == starts

HealsFor == rejob

\* A second later it is connected: healed.
Confirm ==
    /\ rejoined
    /\ IF devices.pifinder # "off" THEN healed' = HealsFor /\ assumed' = FALSE
                                   ELSE UNCHANGED <<healed, assumed>>
    /\ rejob' = None /\ rejoined' = FALSE
    /\ UNCHANGED <<starts, devices>> /\ Reconnecting

\* pos_server does not listen yet, or an INDI call failed.
ReconnectFails ==
    /\ rejob # None /\ ~rejoined
    /\ devices' = IF driver.state = "absent" THEN devices ELSE [devices EXCEPT !.pifinder = "off"]
    /\ rejob' = None
    /\ UNCHANGED <<starts, healed, rejoined, assumed>> /\ Reconnecting

PiFinderRestarts ==
    /\ starts' = starts + 1
    /\ devices' = [devices EXCEPT !.pifinder = IF @ = "live" THEN "stale" ELSE @]
    /\ UNCHANGED <<healed, rejob, rejoined, assumed>> /\ Reconnecting

----------------------------------------------------------------------------
\* The user's handlers, and what happens to the driver.

Chosen == UNCHANGED <<listed, sim, seen, count, restarts, gaveUp, job, linkVars>>

\* /api/mount_bridge_coupling
UserCouples(mode) ==
    /\ Reachable
    /\ driver' = [driver EXCEPT !.mode = mode] /\ desired' = [desired EXCEPT !.mode = mode]
    /\ UNCHANGED devices /\ Chosen

\* /api/mount_bridge_abort: the driver is decoupled, the wish is not.
UserAborts ==
    /\ Reachable
    /\ driver' = [driver EXCEPT !.mode = "off"]
    /\ UNCHANGED <<desired, devices>> /\ Chosen

\* /api/mount_bridge_active_devices: a text is sent without being answered.
UserLinks(mount) ==
    /\ driver.state # "absent"
    /\ driver' = IF driver.state = "ready" THEN [driver EXCEPT !.mount = mount] ELSE driver
    /\ desired' = [desired EXCEPT !.mount = mount]
    /\ UNCHANGED devices /\ Chosen

\* _confirm_device_connected
Confirmed == driver'.connected

\* /api/mount_bridge_connect; a driver that is not there has its profile
\* restarted, and everything in it with it.  The wish is noted only when the
\* driver confirms.
UserConnects ==
    /\ driver.state # "absent"
    /\ IF driver.state = "ready"
       THEN driver' \in {Connected, driver} /\ UNCHANGED devices
       ELSE /\ \E connects \in BOOLEAN, link \in {driver.mount, None} :
                  driver' = [driver EXCEPT !.state = "ready", !.connected = connects,
                                           !.mount = link, !.hold = FALSE]
            /\ devices' = [pifinder |-> "off", mount |-> FALSE]
    /\ desired' = IF Confirmed THEN [desired EXCEPT !.connected = "yes"] ELSE desired
    /\ Chosen

\* The same for PiFinder LX200, whose connection is put right first if it was
\* changed (which drops it, and may leave it so).
UserConnectsPiFinder ==
    /\ driver.state # "absent"
    /\ \E wrong, righted \in BOOLEAN :
           devices' = [devices EXCEPT !.pifinder = IF wrong /\ ~righted THEN "off"
                                                   ELSE IF @ = "stale" /\ ~wrong THEN "stale"
                                                   ELSE "live"]
    /\ UNCHANGED <<desired, driver>> /\ Chosen

UserDisconnects ==
    /\ Reachable
    /\ driver' = [driver EXCEPT !.connected = FALSE]
    /\ desired' = [desired EXCEPT !.connected = "no"]
    /\ UNCHANGED devices /\ Chosen

Happens == UNCHANGED <<desired, sim, seen, count, restarts, gaveUp, job, linkVars>>

\* Another INDI client sets the mode; a driver stops answering, or answers
\* again; a device drops out; the profile loses an entry.
Elsewhere == \E m \in Modes : /\ Reachable /\ driver' = [driver EXCEPT !.mode = m]
                              /\ UNCHANGED <<devices, listed>> /\ Happens

Hangs == /\ driver.state = "ready" /\ driver' = [driver EXCEPT !.state = "hung"]
         /\ UNCHANGED <<devices, listed>> /\ Happens

Answers == /\ driver.state = "hung" /\ driver' = [driver EXCEPT !.state = "ready"]
           /\ UNCHANGED <<devices, listed>> /\ Happens

DropsOut == /\ devices' \in {[devices EXCEPT !.pifinder = "off"], [devices EXCEPT !.mount = FALSE]}
            /\ UNCHANGED <<driver, listed>> /\ Happens

Delisted == \E entry \in listed : /\ listed' = listed \ {entry}
                                  /\ UNCHANGED <<driver, devices>> /\ Happens

\* The profile's server went away, or came back (connected, if it autoconnects).
ServerGone ==
    /\ driver' = [driver EXCEPT !.state = "absent", !.connected = FALSE, !.hold = FALSE]
    /\ devices' = [pifinder |-> "off", mount |-> FALSE]

ServerBack(auto) ==
    /\ driver' = [driver EXCEPT !.state = "ready", !.connected = auto, !.hold = FALSE]
    /\ devices' = [pifinder |-> IF auto THEN "live" ELSE "off", mount |-> auto]

\* The Control Center restarts: what was chosen is read back, the rest is new.
ReadinessRestart ==
    /\ seen' = None /\ count' = [c \in Checks |-> 0]
    /\ restarts' = 0 /\ gaveUp' = FALSE /\ job' = "none" /\ healed' = None /\ rejob' = None
    /\ rejoined' = FALSE /\ assumed' = FALSE
    /\ UNCHANGED <<driver, devices, listed, sim, starts>>
=============================================================================
