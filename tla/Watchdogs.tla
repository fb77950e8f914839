------------------------------ MODULE Watchdogs ------------------------------
(***************************************************************************)
(* The Control Center's watchdogs, the threads they start and the handlers *)
(* that interfere with them.                                               *)
(*                                                                         *)
(* A behaviour exercises one part at a time, by its focus; Budget says how *)
(* often users and faults act in it.  In "driver" and "link" the profiles  *)
(* rest, but the maintenance mode takes the driver down and up with them.  *)
(***************************************************************************)
EXTENDS Readiness

CONSTANTS Focus,  \* bound: the parts a behaviour may be about
          Budget  \* bound: acts of users and faults in a behaviour

VARIABLES focus, spent,
          stopped  \* history: the emergency stop was pressed, no mode chosen since

vars == <<profileVars, holdVars, readinessVars, focus, spent, stopped>>

Act == spent < Budget /\ spent' = spent + 1

NoAct == UNCHANGED spent

TypeOK == ProfilesTypeOK /\ HoldTypeOK /\ ReadinessTypeOK /\ stopped \in BOOLEAN

Init ==
    /\ ProfilesInit /\ HoldInit /\ ReadinessInit
    /\ focus \in Focus /\ spent = 0 /\ stopped = FALSE
    /\ focus \in {"guiding", "link"} => desired.mode # None
    /\ sim = (focus # "link")

----------------------------------------------------------------------------
DriverRest == UNCHANGED <<driver, devices, listed, sim, seen, count, restarts, gaveUp, job, linkVars>>

ReadinessRest == UNCHANGED <<desired, devices, listed, sim, seen, count, restarts, gaveUp, job, linkVars>>

\* The profile that Mount Bridge runs in stops or comes back.
WithDriver ==
    /\ IF server' = server THEN UNCHANGED <<driver, devices>>
       ELSE IF server' = None THEN ServerGone ELSE \E auto \in BOOLEAN : ServerBack(auto)
    /\ UNCHANGED <<listed, sim, seen, count, restarts, gaveUp, job, linkVars>>

Maintaining == \/ MaintenanceOn
               \/ \E started \in BOOLEAN : MaintenanceOff(started)
               \/ maintenance.on /\ server = None /\ \E p \in Names : ServerSet(p)

DriverActs ==
    /\ \/ UserAborts /\ stopped' = TRUE
       \/ ((\E m \in Modes : UserCouples(m)) \/ Elsewhere) /\ stopped' = FALSE
       \/ /\ \/ UserConnects \/ UserConnectsPiFinder \/ UserDisconnects \/ RestartFails
             \/ \E m \in {None, Mount} : UserLinks(m)
             \/ Hangs \/ Answers \/ DropsOut \/ Delisted
          /\ UNCHANGED stopped
    /\ UNCHANGED <<profileVars, holdVars>>

GuidingActs ==
    \/ /\ Hangs \/ Answers \/ UserConnects \/ UserDisconnects \/ RestartFails
       /\ UNCHANGED <<profileVars, holdVars>>
    \/ /\ AlignTurns \/ \E state \in {"guiding", "safe", "silent"} : EkosTurns(state)
       /\ ReadinessRest /\ UNCHANGED profileVars

LinkActs ==
    PiFinderRestarts \/ ReconnectFails \/ UserConnectsPiFinder
    \/ (devices.pifinder # "off" /\ devices' = [devices EXCEPT !.pifinder = "off"]
        /\ UNCHANGED linkVars /\ Reconnecting)

CenterRestarts == ProfilesRestart /\ ReadinessRestart /\ HoldRestart /\ UNCHANGED server

Guarding == HoldTick \/ RestOver

Healing ==
    \/ Poll \/ PollDevices
    \/ \E asked, shadow \in BOOLEAN : Heal(asked, shadow)
    \/ \E saved \in BOOLEAN : DriverRestarts(saved)
    \/ BridgeRepair \/ OtherRepair \/ FollowRepair
    \/ WindowPasses

Relinking == ReconnectTick \/ Rejoin \/ Confirm

AboutDriver ==
    \/ DriverActs /\ Act
    \/ /\ \/ CenterRestarts /\ Act
          \/ Maintaining /\ WithDriver /\ UNCHANGED holdVars /\ Act
          \/ Healing /\ UNCHANGED <<profileVars, holdVars>> /\ NoAct
       /\ UNCHANGED stopped

AboutGuiding ==
    \/ (GuidingActs \/ CenterRestarts) /\ Act
    \/ Guarding /\ ReadinessRest /\ UNCHANGED profileVars /\ NoAct
    \/ Healing /\ UNCHANGED <<profileVars, holdVars>> /\ NoAct

AboutLink ==
    \/ LinkActs /\ UNCHANGED <<profileVars, holdVars>> /\ Act
    \/ CenterRestarts /\ Act
    \/ Maintaining /\ WithDriver /\ UNCHANGED holdVars /\ Act
    \/ (Relinking \/ Healing) /\ UNCHANGED <<profileVars, holdVars>> /\ NoAct

\* A profile that is gone cannot come up.
ColdStarts == ColdStart("up") \/ (~profile[last.active].there /\ ColdStart("raises"))

ProfileActs ==
    \/ \E r \in Requests, p \in Names : RememberProfile(r, p) \/ ChangeDrivers(r, p)
    \/ \E r \in Requests : HostProfile(r) \/ Refused(r) \/ HalfRecreated(r)
    \/ \E r \in Requests, changed \in BOOLEAN : ClientSwitch(r, changed)
    \/ \E p \in Named : ServerSet(p)
    \/ \E choice \in {None, "host", "client"} : RoleChosen(choice)
    \/ MaintenanceOn \/ \E started \in BOOLEAN : MaintenanceOff(started)
    \/ \E outcome \in {"raises", "nothing"} : ColdStart(outcome)
    \/ ProfilesRestart /\ UNCHANGED server
    \/ Booted

ProfileSteps ==
    \/ \E r \in Requests : Stopped(r) \/ Started(r) \/ Finished(r) \/ Hopeless(r)
    \/ \E r \in Requests, d \in {"bridge", "remote"} : Changed(r, d)
    \/ ColdTick \/ ColdStarts \/ Cooled

ServiceActs ==
    \/ \E r \in Requests, p \in Names : ChangeDrivers(r, p)
    \/ \E r \in Requests : Refused(r)
    \/ \E active \in BOOLEAN : ServiceSet(active)
    \/ StopForRemote \/ SyncUnanswered
    \/ \E p \in Named : ServerSet(p)
    \/ server # None /\ SyncTick(FALSE)
    \/ ProfilesRestart /\ UNCHANGED server
    \/ Booted

ServiceSteps ==
    \/ \E r \in Requests : Stopped(r) \/ Started(r) \/ Finished(r) \/ Changed(r, "remote")
    \/ SyncTick(TRUE)

AboutProfiles ==
    /\ \/ focus = "profiles" /\ ((ProfileActs /\ Act) \/ (ProfileSteps /\ NoAct))
       \/ focus = "service" /\ ((ServiceActs /\ Act) \/ (ServiceSteps /\ NoAct))
    /\ DriverRest /\ UNCHANGED holdVars

Next ==
    /\ \/ focus = "driver" /\ AboutDriver
       \/ /\ \/ focus = "guiding" /\ AboutGuiding
             \/ focus = "link" /\ AboutLink
             \/ AboutProfiles
          /\ UNCHANGED stopped
    /\ UNCHANGED focus

Spec == Init /\ [][Next]_vars

\* Watchdogs tick, threads run to their end, handlers finish.
Watched == focus \in {"driver", "guiding", "link"}

Requested == focus \in {"profiles", "service"}

DriverFairness ==
    /\ WF_readinessVars(Watched /\ Poll)
    /\ WF_readinessVars(Watched /\ PollDevices)
    /\ WF_readinessVars(Watched /\ \E asked, shadow \in BOOLEAN : Heal(asked, shadow))
    /\ WF_readinessVars(Watched /\ \E saved \in BOOLEAN : DriverRestarts(saved))
    /\ WF_readinessVars(Watched /\ BridgeRepair)
    /\ WF_readinessVars(Watched /\ OtherRepair)
    /\ WF_readinessVars(Watched /\ FollowRepair)
    /\ WF_readinessVars(Watched /\ WindowPasses)
    /\ WF_<<driver, holdVars>>(focus = "guiding" /\ HoldTick)
    /\ WF_<<driver, holdVars>>(focus = "guiding" /\ RestOver)
    /\ WF_readinessVars(focus = "link" /\ Relinking)

ProfileFairness ==
    /\ \A r \in Requests : /\ WF_profileVars(Requested /\ Stopped(r))
                           /\ WF_profileVars(Requested /\ Started(r))
                           /\ WF_profileVars(Requested /\ Finished(r))
                           /\ WF_profileVars(Requested /\ Hopeless(r))
                           /\ WF_profileVars(Requested /\ \E d \in {"bridge", "remote"} : Changed(r, d))
    /\ WF_profileVars(focus = "profiles" /\ ColdTick)
    /\ WF_profileVars(focus = "profiles" /\ ColdStarts)
    /\ WF_profileVars(focus = "profiles" /\ Cooled)
    /\ WF_profileVars(focus = "service" /\ SyncTick(TRUE))

FairSpec == Spec /\ DriverFairness /\ ProfileFairness
=============================================================================
