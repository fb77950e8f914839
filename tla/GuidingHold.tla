----------------------------- MODULE GuidingHold -----------------------------
(***************************************************************************)
(* The guiding watchdog: while Ekos guides it keeps the external hold of   *)
(* Mount Bridge on, so that nothing moves the mount under the guide        *)
(* camera.  The driver knows whether it is held; the watchdog believes to  *)
(* know, and after a restart first has to learn it.                        *)
(***************************************************************************)
VARIABLES driver,    \* Mount Bridge: state, connected, mode, mount, hold
          ekos,      \* GuideState, or silent when Ekos does not answer
          aligning,  \* MULTI_POINT_ALIGN is Busy
          held,      \* _guiding_hold_active
          adopted,   \* _guiding_hold_adopted_initial_state
          idle       \* _guiding_hold_idle_since, and whether 15 s are over

holdVars == <<ekos, aligning, held, adopted, idle>>

HoldTypeOK ==
    /\ ekos \in {"guiding", "safe", "silent"}
    /\ aligning \in BOOLEAN /\ held \in BOOLEAN /\ adopted \in BOOLEAN
    /\ idle \in {"no", "since", "over"}

HoldInit ==
    ekos = "safe" /\ aligning = FALSE /\ held = FALSE /\ adopted = FALSE /\ idle = "no"

\* Only a connected driver that answers has the property EXTERNAL_HOLD.
Reachable == driver.state = "ready" /\ driver.connected

AdoptsNothing == FALSE

\* What the watchdog finds on the driver the first time it can ask.
Adopts == driver.hold

Believed == IF adopted THEN held ELSE Adopts

\* An unknown GuideState counts as guiding; a release waits for 15 s of rest.
WantsHold == ekos = "guiding" \/ (Believed /\ idle # "over")

\* set_mount_bridge_external_hold raises when the driver cannot take it.
SetHold(on) ==
    IF Reachable THEN held' = on /\ driver' = [driver EXCEPT !.hold = on]
                 ELSE held' = Believed /\ UNCHANGED driver

LeaveHold == held' = Believed /\ UNCHANGED driver

\* _guiding_hold_watchdog_tick
HoldTick ==
    /\ adopted \/ Reachable
    /\ adopted' = TRUE
    /\ idle' = IF ekos = "guiding" THEN "no"
               ELSE IF ekos = "safe" /\ Believed /\ idle = "no" THEN "since" ELSE idle
    /\ IF ekos = "silent" THEN LeaveHold
       ELSE IF WantsHold /\ ~Believed /\ ~(Reachable /\ aligning) THEN SetHold(TRUE)
       ELSE IF ~WantsHold /\ Believed THEN SetHold(FALSE)
       ELSE LeaveHold
    /\ UNCHANGED <<ekos, aligning>>

RestOver ==
    /\ idle = "since" /\ idle' = "over"
    /\ UNCHANGED <<driver, ekos, aligning, held, adopted>>

EkosTurns(state) ==
    /\ ekos # state /\ ekos' = state
    /\ UNCHANGED <<driver, aligning, held, adopted, idle>>

AlignTurns ==
    /\ Reachable \/ aligning
    /\ aligning' = ~aligning
    /\ UNCHANGED <<driver, ekos, held, adopted, idle>>

HoldRestart ==
    held' = FALSE /\ adopted' = FALSE /\ idle' = "no" /\ UNCHANGED <<ekos, aligning>>
=============================================================================
