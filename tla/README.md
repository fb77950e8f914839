# PiFinder Stellarmate: verification project

TLA+ models of the programs this repository adds to a PiFinder and a
Stellarmate, the TLC runs that check them, and theorems about them that TLAPS
proves. Two programs are modelled: the **Mount Bridge** driver, which decides
every two seconds whether to sync or to move a telescope mount, and the
**Control Center**, the web server whose handlers and watchdogs set that driver
up and keep it, its INDI profile and PiFinder's service running.

Contents: [the system](#1-the-system) · [the Mount Bridge](#2-the-model-of-the-mount-bridge) ·
[the Control Center](#2a-the-model-of-the-control-center) ·
[runs](#3-the-runs) · [what the code does not keep](#4-statements-the-code-does-not-keep) ·
[proofs](#5-proofs) · [limits](#6-limits-of-the-model) · [plan](#7-plan)

To run: `tlc -config <run>.cfg MCMountBridge.tla` (`MCAbort.tla`
for `v_stop.cfg`, `MCAlignment.tla` for `align.cfg` and `v_align.cfg`,
`MCControl.tla` for `control.cfg`, `MCWatchdogs.tla` for `guard.cfg` and `v_hold.cfg`),
and `tlapm` on each module named `*_proofs`. `PROJECT.json`
lists the runs, which lines of the source each definition models, the hazards
and the findings.

## 1. The system

A *PiFinder* is a plate-solving camera on the telescope tube: it knows where
the tube points. A motorised *mount*, driven through INDI, knows where its
motors stand. The two disagree when the mount's model is off, when tracking
drifts, or when somebody opens a clutch.

| Part | Source | State it keeps | Operations | Talks to |
|---|---|---|---|---|
| Mount Bridge, INDI driver | `indi_pifinder_bridge/pifinder_mount_bridge.{h,cpp}` | mode, action, hold; `ForwardState` and `CorrectState` with their counters; held, original and correction targets; reposition detection with its pending confirmation; per-connection flags | `TimerHit()` every 2 s; `ISNewSwitch`/`ISNewNumber` from clients; `Connect`/`Disconnect` | the mount and PiFinder LX200 (INDI, through the client), PiFinder (`/api/status`) |
| Mount Bridge, INDI client | `indi_pifinder_bridge/pifinder_bridge_client.{h,cpp}` | mirrors of both devices, the pending push-to event, the refusal flag, the time of the last command, binding retries | property callbacks, `sendMountCoords`, `sendPiFinderCoords`, `abortMount` | the INDI server |
| PiFinder LX200 driver | `indi_pifinder/lx200_pifinder.*` | last published push-to target, PiFinder's position | `Goto`, `ReadScopeStatus` with `pollCurrentTarget` | PiFinder (serial protocol over TCP, HTTP) |
| PiFinder Simulator driver | `indi_pifinder_simulator/*` | simulated position, follow flag and deadline, startup default | `ReadScopeStatus`, Goto, Sync | the mount, the Mount Bridge's correction age |
| Control Center: access | `server.py` 190-297, 4561-4648, `status_page.html` | the lease's holder and last heartbeat; wrong answers per address; slots for PAM | claim, heartbeat, release, take control; the preamble of `do_POST` | browsers |
| Control Center: jobs | `server.py` 299-345, 3451-3555, 4072-4537 | a flag per kind of job, the pending restart, the result file | handlers, one thread per job, the start-up test | scripts, systemd |
| Control Center: Full Simulation | `server.py` 1758-1952, `test_tools/pifinder_truth_injector.py` | what is wanted, the injector process, trains to give back (memory and disk) | toggle, injections by hand, a watchdog | PiFinder's fake solves (HTTP), Ekos (D-Bus) |
| Control Center: watchdogs | `server.py` 1347-1483, 1965-2207, 2792-3448, `indi_client.py` | belief in the hold; desired mount, mode and connection (persisted); failures, restarts, one repair thread; the healed service start | guiding, readiness and reconnect ticks; the handlers they race with | Mount Bridge, PiFinder LX200 and the mount (INDI), Ekos |
| Control Center: profiles | `server.py` 391-588, 2371-2598, 5905-6679, `webmanager_client.py` | remembered profiles, role, maintenance mode, a switch's flag, cold start attempts, why PiFinder's service was stopped | profile and driver handlers, cold start, service sync | Web Manager (HTTP), systemd |
| Patches to PiFinder | `diffs/*.diff` | push-to target, position and solve in PiFinder's own state | LX200 commands, `/api/*` | LX200 driver, Mount Bridge |
| Scripts | `pifinder_stellarmate_setup.sh`, `bin/*` | files, packages, services | install, update, restore | systemd, git |

**How the parts interact around a push-to.** A user (or KStars, through the
LX200 driver) sets a target. The LX200 driver publishes it as
`TARGET_EOD_COORD`; the bridge's client keeps one *pending* flag. The next tick
that looks at it sends the mount there (`ON_COORD_SET` = SYNC to where the
camera says the tube is, then TRACK), waits for the slew to end, waits for a
fresh camera solve, refines by another Sync and Goto while the residual is too
large, and then holds the target against drift. Before any of this,
*reposition detection* looks at the same two positions: a mount that moved
without the bridge having commanded it belongs to somebody else; its resting
place is adopted as the new target and pushed **back to PiFinder**, which
publishes it, which is an echo the bridge must not forward. A disagreement no
passive motion of the sky could explain is put to the operator, with a
timeout.

**Two alignments cut across this.** On request the bridge visits a list of
points PiFinder proposes and syncs the mount at each (a *run*), and when the
user has aligned PiFinder with an object in the telescope (an *Align*, which
PiFinder reports with a time stamp), the bridge syncs the mount to it once.
Both are called by every tick, in every mode (Align: but Off), before it reads
the positions; neither suspends the mode's own handler.

**Behaviours that are hard.**
- One tick reads the positions, runs detection, then a handler that reads
  PiFinder *again* over HTTP: the world goes on in between.
- The solve's age, the settle countdown and the recent-command window are all
  timers whose races decide whose motion it was.
- Operator requests (mode, action, hold, answers, abort, reconnect) come
  between any two ticks, and restarts at any moment.
- Push-to events are published more than once, late, overwritten, or are
  echoes of the bridge's own pushes.
- The mount may refuse a command, take its time, or be driven by others.
- Target fields start as NaN and are written by some paths only.
- The Control Center's handlers run on a thread each, beside watchdogs that act
  on what they read seconds ago and start further threads; flags are set under
  locks that are not held while the work is done.
- It restarts itself, is killed and crashes; half of its state is in memory,
  half in a file, and the processes it started live on.
- What it works on (drivers, profiles, PiFinder's queue, optical trains) is
  changed by others meanwhile, and any call to it may fail, hang, or take effect
  after it was given up.

**What makes each part correct.** *Bridge*: an arrival is verified by a solve
made after it; only a recorded target is ever sent; only the selected mode
commands; nothing is sent while a question is open, a hold is taken, or
somebody else drives; what was asked for is what is held, finally reached and
kept; every wait ends. *LX200 driver*: every push-to is published, a partial
one never. *Simulator*: never fed back from the corrections it causes.
*Control Center*: one writer at a time, and none that has gone for ever; two
long jobs never at once, and none cut by a restart; what was swapped to the
simulator is given back, and off is off; what the user chose for the driver
comes to be, the hold follows the guiding, and a driver, a link, a profile or a
service that went down comes back, whatever restarted in between.

Components, modelled or not, with the reason, are in `PROJECT.json`
("components"); 40 hazards, each at its line, in "hazards".

## 2. The model of the Mount Bridge

| Module | Models | In the code |
|---|---|---|
| `BridgeState` | constants, variables, initial states; what the driver reads (`Fresh`, `Trusted`, `MountSlewing`) and what it can send (`JustSync`, `JustTrack`, `SyncThenTrack`); the mount's answer (`Obey`) | header fields, `sendMountCoordsSafe()`, `syncMountToPiFinderPosition()`, `isAboveHorizon()`, `httpGetPiFinderFreshCamPosition()`, client |
| `GotoForward` | every branch of `handleGotoForward()`, one action or disjunct each | 2391-2904 |
| `AutoCorrect` | `handleAutoCorrectGoto()` and `TimerHit()`'s plain Sync | 2031-2110, 2906-3060 |
| `Reposition` | `handleRepositionDetection()` | 1390-1674 |
| `MountBridge` | the tick, the operator's requests, the world; `Next`, `Spec`, `FairSpec` | `TimerHit()`, `ISNewSwitch()`, `Connect()` |
| `Alignment` | the alignment run (`run`) and Align sync (`ali`), composed with the bridge | `startMultiPointAlignment()` to `advanceAlignPoint()`, 3066-3299; `handlePiFinderAlignSync()`, 1688-1780 |
| `AlignmentProperties` | what holds of it; two statements that do not | |
| `BridgeProperties` | properties that hold | |
| `BridgePromises` | statements of comments and documents that do not | |
| `AbortHistory` | a history variable for the emergency stop | |
| `MCMountBridge`, `MCAbort`, `MCAlignment` | the small sky of the runs | |
| `MountBridge_proofs`, `Arrival_proofs`, `Aim_proofs`, `Alignment_proofs` | theorems, each module resting on those before it | |

**State.** `sky` is the truth and the mount's mirror: where the tube points
(`scope`), where the mount believes it is (`mount`), where it is being sent
(`goal`), whether it refused (`rejected`). `cam` is PiFinder's last camera
solve: position, age, and a ghost bit `moved` (a slew ended since it was made)
used by one property only and never by the driver. `tgt` is the push-to
channel: publications on the wire, the value last received, and the pending
event with who caused it (a user or the bridge: also a ghost, the code cannot
see it). `sel`, `fwd`, `cor`, `held`, `rep` and `ses` are the driver's fields
grouped by purpose. `tick` says how far `TimerHit()` got and the positions it
read at its start. `out` is the list of commands the last step sent.

**Steps.** A tick is three steps: `TickStart` (age the clocks, bootstrap Sync,
read both positions), then `HandleReposition` or `SkipDetection`, then the
mode's handler. That is where the code lets the world in: every read in between
is a separate INDI mirror lookup or HTTP request. Everything one handler does,
its Sync and its Goto, its resets and its notification, is one action.
Operator requests happen between ticks, because the driver runs on one event
loop; a restart happens anywhere. What a slew, a solve, a publication or
another hand does can happen in every phase listed in `WorldPhases`: all three
where races inside a tick are the question, `idle` where they are not and the
instance is otherwise too large.

**Composition.** `Alignment` extends the bridge. Its variables are `run` (state,
points, the index, the points synced, two countdowns) and `ali` (PiFinder's
last Align and its place; the last one the driver has seen to; for how many ticks
one is waiting). Its tick is that of `MountBridge` with two steps put where
`TimerHit()` calls the handlers: after the bootstrap Sync, before the positions
are read (`BeginTick`, then the phases `run` and `align`, then `Positions`). A
tick on which neither has anything to do is the bridge's own `TickStart`. That a
run is under way also tells detection whose motion it sees: `tick.aligning`,
always FALSE in the bridge alone. A `Restart` clears what the driver's process
knew, while PiFinder goes on counting; an `AbortMount` leaves the run as it is,
as the code does. PiFinder may have been aligned before the driver was started.
`astray` is a history variable: whether, since the run sent the mount to the
point it is at, somebody moved or stopped the mount, a correcting mode was on,
or the mount refused to go. The driver cannot see it, and `Strays` is a
conjunct of the specification beside the next-state relation, not part of any handler.
A push to PiFinder (`NotifyPiFinder`) may fail, and then the echo of an earlier one is still the
one expected.

**Data.** A position is a model value; angles are counted in units just above
`DriftThreshold`, so `Sep(a, b) > 0` reads "exceeds the threshold". Time is
counted in ticks. Slews take any number of ticks and are seen only as their
two ends; sky rotation below the threshold is not seen, and a `Slip` is any
disagreement, sudden or grown. A motion carries the tube by the angle the
motors turned (`Carry`), so a mount whose model is off stays off until it is
synced: this is what makes refinement necessary and swings possible.

## 2a. The model of the Control Center

| Module | Models | In the code |
|---|---|---|
| `OneWriterLease` | what the lease promises: the abstract specification | 190-269 |
| `HostLease` | the lease and the pages that use it; `Promise` is the refinement mapping | `_host_claim()` to `_host_take_control()` |
| `Admission` | the preamble of `do_POST`: lockout, PAM's slots, the lease check | `_require_auth()`, `_require_host()` |
| `Jobs` | jobs, their flags, threads and scripts; restarts; the report | `_start_run()`, `_reader_thread()`, `_run_reset()`, `_run_hardware_test()`, `_restart_control_center()` and their handlers |
| `FullSimulation` | injector, toggle, watchdog, injections by hand, train swap | `_truth_injector_*()`, `_optical_train_*()`, `_pifinder_*fake_solve*()` |
| `ControlCenter` | these composed; `Next`, `FairSpec` | `do_POST` |
| `GuidingHold` | the guiding watchdog | `_guiding_hold_watchdog_tick()` |
| `Profiles` | profiles, roles, maintenance, cold start, `pifinder.service` | 391-588, 2371-2598, 5905-6679; `webmanager_client.py` |
| `Readiness` | the readiness watchdog, its repair thread, the reconnect watchdog; the handlers they race with | 1965-2207, 2889-3448, 6054-7003; `indi_client.py` |
| `Watchdogs` | these composed; `Next`, `FairSpec` | |
| `ControlProperties`, `WatchdogProperties` | properties | |
| `MCControl`, `MCWatchdogs` | instances | |
| `ControlCenter_proofs`, `Jobs_proofs`, `FullSimulation_proofs`, `Watchdogs_proofs` | theorems | |

**Threads.** A step is what one thread does between two points at which another
can run: a handler that only takes a lock, writes fields and sends one command
is one action; one that calls a program, waits, or goes through a list is one
action per call. So a profile switch is a `request` with its `step` (stop, edit
or change, start, wait), a swap of optical trains is one `SwapField` per device
field and a save at the end (`Launch`), a poll of Mount Bridge is `Poll` (the driver),
`PollDevices` (the two it is linked to) and `Heal` (the checks, on what is by then
old), and a repair is its own action of a thread that looks at the *current*
wishes when it comes to run. Requests may fail between any two steps
(`Refused`), and in the middle of the Web Manager client's delete-and-recreate
(`HalfRecreated`).

**Time.** The lease's age is counted in heartbeat periods; debounce, cooldown and
restart windows are bits that an action of their own ends (`RestOver`, `Cooled`,
`WindowPasses`, `WindowEnds`); the two seconds before a restart of the Control
Center are the time between `pending` and `Restart`. A counter is kept where the
code compares one.

**Faults.** A page closes, sleeps, or loses its release; a process crashes at
any step (`Crash`, `SimulationRestart`, `CenterRestarts`) and starts anew with what the
code saves (`disk`, `desired`, `maintenance`, `last`, `service`), its scripts going on
(`orphan`); the computer reboots (`Booted`); the driver hangs, answers again,
loses devices or its profile's record; a train's setter fails, or times out and takes
effect all the same; the injector dies; `systemctl` does nothing; a profile is gone. What the
code does not look at may fail too: a save of the desired state (`Saved`), a clear of PiFinder's
solve (`Cleared`, also at start-up). A job's handler may fail between flag and thread
(`StartFails`), and a job's thread while its script goes on (`ThreadGivesUp`).
A reconnect of PiFinder LX200 looks at the service's start once and may leave the link off (`Rejoin`).

**History variables**, read by properties and never by the model: `stuck` and `retried`
(jobs), `loose`, `swapped`, `unsaved` and `lost` (Full Simulation), `assumed`, `stopped`
and `service.cut` (watchdogs).

**Composition.** `ControlCenter` and `Watchdogs` are two specifications because the parts
of the one share no state with those of the other but the process they run in.
Within each, a behaviour has a `focus`, chosen at its start: which part users and
faults touch. Parts in different focuses do not write each other's variables in
the code either; where they do, one focus has both: `requests` has lease,
admission and jobs (control changes hands while a request is on its way),
`guiding` has the guiding and the readiness watchdog over one driver, `driver` and
`link` have the maintenance mode over driver and profile, and `profiles` and
`service` the switches under the cold start and the service's sync.

## 3. The runs

**The bridge.** The sky of `MCMountBridge` is a ring of four positions, neighbours one unit
apart (within `MaxSyncDrift`), opposite ones two (beyond), and the special
RA0/Dec0. Four are needed: a start, two targets, and one that is out of reach
of another; a fifth would have no relation to them that these lack. `Budget`
bounds how many disturbances and requests a behaviour has, `Places` where they
lead, `WireCap` how many publications are under way, `Forever` where ages
saturate. With `Forever = 2 = PassiveTicks` (`quiet`, `sessions`, `live`, `align`) the sky's rotation
may explain one unit after two ticks without a position, so the plausible-drift
branches (cpp 1529-1570) are taken; a third tick would add nothing that this sky can tell apart but
an unlimited allowance. `races` keeps `Forever = 1`, where no drift is
plausible: its question is the order inside a tick, and with 2 it is too large for its time. `SettleTicks`,
`Retries`, `FreshWait` and the windows are scaled down to the smallest values
at which the branches they guard differ, keeping the order the code's constants
have where a property depends on it: the freshness limit (default 5 s, under 3
ticks) is not longer than the settle wait (3 ticks) in `races` and `quiet`; the
recent-command window is 2 ticks.

| Run | Question | Properties |
|---|---|---|
| `races` | both correcting modes, the world changing in every phase of a tick, two disturbances or answers | `TypeOK ArrivalSolved ForwardAimed OriginalTargetFixed ExternalWins` |
| `quiet` | holds, questions, aborts and other hands, three of them, both correction actions | `PendingQuiet HoldQuiet SyncAtRest AdoptsRestingPlace` |
| `sessions` | all modes and actions, switches, reconnects, restarts, answers, a target out of the mount's reach, lost and doubled publications, a site whose location is known | `OneCorrector GotoTargetSet` |
| `live` | fair ticks, slews and solves, a telescope whose model is off, two disturbances, a site whose location is known | `ForwardEnds CorrectEnds PushToDelivered ConfirmResolved ExternalResolved TargetHeld Agreement` |
| `align` | Off, Verify/Alert and Goto-Forward with runs, Aligns, aborts, holds and restarts, two of them, a telescope whose model is off, a point where the tube is below the horizon | `AlignedTypeOK RunSolved RunSyncsAlone SyncedAtPoint HeldAligningQuiet RunEnds AlignSettled` |
| `control` | two browsers, jobs, Full Simulation: users and faults, four of them | `TypeOK OneWriterPromised NoLockout JobsAlone RestartDecidedAtRest JobsEnd TrainsRemembered OffIsOff InjectorRevived` |
| `guard` | the watchdogs against users and faults, three of them | `TypeOK DriverReady HoldFollowsGuiding LinkRenewed ProfileReturns ServiceFollowsTarget` |
| `v_no_null`, `v_stop`, `v_swing`, `v_align`, `v_hold` | section 4 | one each |

Some hold under their run's conditions only, and those conditions say something
about the code; section 4 has the instances beyond them. `SyncAtRest` needs that
the mode is not switched during a slew (cpp 3358), and it and `AdoptsRestingPlace` that no
solve arrives between detection and handler: hence the events and phases of `quiet`.
`ExternalWins` is checked where solves do (`races`), and names the one case in
which the mount is commanded all the same: detection found no position, the handler of the same
tick one. `AdoptsRestingPlace` allows the place to be off by what the sky's rotation may
explain, because the code adopts it then (a motion within `PassiveDrift` since the last look
does not restart the countdown). `CorrectEnds` needs the location too: after a revert with no
correction target on record, settling's retry sends a NaN, and without a location the
mount goes to RA0/Dec0, where no solve is trusted; hence the one of `live`. (The
NaN itself is the finding of `v_no_null`, in Auto-correct's form: section 4.)
`GotoTargetSet` needs a known site location, which makes the altitude of a NaN a
NaN, which the horizon guard refuses. `ArrivalSolved` needs
`MaxAge <= SettleTicks`, the hypothesis of its theorem. `AdoptsRestingPlace` and
`TargetHeld` count the disturbances they allow. A mount that goes there and back
between two polls is not seen to have moved, and two push-tos, or a move and a
slip, are enough to keep a target from being held (`v_swing`).
`RunSolved` and `RunSyncsAlone` are about Off and Verify/Alert,
where the run alone moves the mount (`Passive`): in the other modes they fail
(section 4), and an operator who enters Goto-Forward during a run syncs by that. `SyncedAtPoint`
excuses a point the mount was kept or moved from (`astray`), and that point only:
`align` has the emergency stop among its events, and its theorem the moves and refusals as well. `RunSolved` needs `MaxAge <= SettleTicks + 1`: the tick that sees the
arrival looks at no solve.
Every property of these runs is violated when the definition that carries it is
changed in the way a bug would (`PROJECT.json`, "mutants").

**Fairness.** `FairSpec` assumes weak fairness of the tick (the poll timer
re-arms itself on every path of `TimerHit()`) and of publication (INDI delivers
in order over TCP), and strong fairness of a slew's end and of solves. Strong,
because `WorldPhases` switches these off during a tick, an artefact of the
model, while mount and camera go on all the time. The waits for a solve are
bounded by counters. `ForwardEnds` needs every one of its countdowns: its mutant lets the
settle wait of SETTLING stand still (`ForwardSettleForever`), and the machine then settles for ever
although solves keep coming. A question to the operator whose deadline finds
no fresh solve is closed without reverting and asked again with the next solve;
for a solver that misses every deadline this goes on for ever and starves the
mode's handler (TLC shows it: drop `DeadlinesSolved`). `DeadlinesSolved` is
therefore a hypothesis of the properties that need the handler. Nothing is assumed of users, other hands or the
operator.

`AlignedFairSpec` assumes of solves nothing: a run must end without any. It
assumes strong fairness of PiFinder's answer about Aligns, since a reply may be
missing on any tick but not on all.

**The Control Center.** `Budget` bounds the acts of users and faults of a
behaviour; what the program does by itself is not bounded. `control` has four
acts, and three requests in the focus on admission: enough for turning on, dying
or crashing in the middle, turning off and a further injection by hand, or for a
job, a second one, a restart and a crash. Two browsers show every race of the
lease (a third could only be one of them), two handlers and one slot that of
admission, two device fields a partial swap or restore, two hosts a change of
host. `Patience` is 3 (the code's time-out is several beats), `Threshold` 2.
`guard` has three acts: two faults and what the user does between or after them.
Two profiles are the least that a switch needs, two requests the least that
race; `Fails` 2 and `Restarts` 2 (3 and more in the code) are the least at which one
failure is not enough, one restart not the last. `Attempts` is 3, the code's.

Each property names the windows in which the code does not keep it: `JobsAlone` the
start-up test's repetition and scripts nobody waits for (`deserted`, `orphan`),
`RestartDecidedAtRest` is about the decision and not the two seconds after it, `JobsEnd` excuses a
flag whose thread never started (`stuck`), `TrainsRemembered` what no save did when the process ends
(`unsaved`, `lost`), `OffIsOff` a clear that failed or came before its seed (`loose`), `DriverReady` the
emergency stop, `HoldFollowsGuiding` and `LinkRenewed` a belief the watchdog has no reason to give
up, `ProfileReturns` a start that raised too often. Without these conjuncts TLC breaks each (section 4).

*Fairness.* `LeaseFairness`: time passes, and an open page beats and asks for a free lease (its
timers). `JobsFairness`: scripts and tests end, threads run on. That a script
ends is an assumption on the scripts; the threads' last steps are the code's
(`try ... finally`), and that a thread gives up is never assumed. `SimulationFairness`: the toggle's and the watchdog's threads go
on. `DriverFairness`: each watchdog loop ticks (a `while True` that catches what its
body raises) and the repair thread runs; a restart of the driver is executed while there is a server
to take it. `ProfileFairness`: a request goes on to its end or its error, the cold start's thread runs,
and a start of a profile that is there can succeed. All weak: none of these
actions is disabled for longer than what the other side does once. Nothing is
assumed of users, of faults, or of replies by drivers that hang.

**Deadlock** is checked in the bridge's runs. In `control` and `guard` it is
not: a Control Center that is shut down or uninstalled stops for good, and once the
budget is used up nothing is left to do where no watchdog has work.

## 4. Statements the code does not keep

Comments, log messages and documents promise more than the code does. Five of
the disagreements have a run; those of the bridge are stated in `BridgePromises` (or
hold in the runs above within their limits), and TLC finds a behaviour that
breaks each on the instance named: `v_no_null.cfg` with the changes shown and
the formula in place of its own.

| Statement | What happens | Run, or instance |
|---|---|---|
| an unset target must not be sent (cpp 1427-1440) | the guard is in one of three places: the operator's No has none | `v_no_null`: `GotoTargetSet` |
| the emergency stop is "independent of [...] any in-progress settle-retry cycle" (h 259-268) | the cycle goes on and sends the mount off again | `v_stop`: `StaysStopped` |
| "the whole point of a push-to is that the mount then *holds* that target" (h 573) | own arrivals are adopted as external moves, and their late echoes alternate for ever | `v_swing`: `HoldsTarget` |
| "A newly-appearing Align [...] -> the mount's EQUATORIAL_EOD_COORD jumps" (align_sync_test.py:16) | the first one after PiFinder's start is noted and never synced | `v_align`: `AppearingAlignSynced` |
| a hung driver's restart is skipped "until guiding stops" (server.py 2997-3009) | the hold it waits for is released only by an answer of the driver, which hangs: it is never restarted | `v_hold`: `RestartedAfterGuiding` |
| the same guard, in Auto-correct | it sets `m_lastForwarded`, settling sends `m_correctTarget` | `GotoTargetSet`; `Modes = {"AUTO"}`, `Events = {"slip"}`, `Forever = 2` |
| an external slew is one "we did NOT ourselves just command" (h 741) | no solve during the own slew: the first one after the 4 s window shows the whole slew as a jump | `OwnSlewNotExternal`; `Events = {"push"}`, `Starts <- OffByOne`, all `WorldPhases` |
| the handlers are skipped while somebody else drives (h 712-736) | detection skips ticks without a position (cpp 1485), the handler reads for itself | `ExternalWins` without `SolvedMeanwhile`; `Events = {"move"}`, all `WorldPhases` |
| the resting place is adopted (cpp 1529-1536: further motion restarts the countdown) | in that race the handler drives the mount while the motion is still watched, and what is adopted is stale | `AdoptsRestingPlace`; `Events = {"push", "move"}`, `Forever = 2`, all `WorldPhases` |
| echoes "must be recognized and skipped" (reposition_notifies_pifinder.md:61) | one slot for several echoes | `EchoSkipped`; `Events = {"move"}` |
| and suppress nothing else (h 594) | a slot whose echo was overwritten is never cleared | `PushToTaken`; `Events = {"move", "push"}`, `Budget = 3` |
| "a single, low-friction confirmation" (reposition_detection.md:40) | Yes records the target but does not sync; the same drift is asked about again | `AnsweredIsSettled`; `Events = {"slip", "yes"}` |
| an unanswered question is "reverted automatically" (cpp 1669) | closed without reverting when no position is known on that tick | `TimeoutReverts`; `Events = {"slip"}` |
| the revert is verified by SETTLING (cpp 1417-1424) | Auto-correct settles towards a different target | `CorrectAimed`; `Modes = {"AUTO"}`, `Events = {"slip", "move"}` |
| "still backstopped by MaxSyncDriftNP" (cpp 1630) | Auto-correct by Goto has no limit | `AutoBackstopped`; `Modes = {"AUTO"}`, `Starts <- OffByTwo` |
| re-entering "always re-baselines" (cpp 3311) | the old original target survives and is returned to | `ReentryRebaselines`; `Events = {"push", "mode"}`, `Budget = 3` |
| "Not retrying the same command - now holding" (cpp 2533) | HOLDING retries it | `RefusedNotRepeated`; `Events = {"push"}`, `Unreachable = {2}` |
| no Sync mid-motion (cpp 2697) | entering the mode syncs at once | `SyncAtRest`; `Events = {"push", "mode"}` |
| a fresh solve "of the arrival position" (h 568) | only an age is compared, and it can be set above the settle wait (cpp 913) | `ArrivalSolved`; `Events = {"push"}`, `MaxAge = 3` |

In `Alignment`, on the instance of `align.cfg` with the changes shown:

| Statement | What happens | Instance |
|---|---|---|
| "an extra [Sync] mid-sequence could inject a stray point" (cpp 1738-1741), so an Align waits for a run's end | in Goto-Forward and Auto-correct the mode's own handler syncs and slews during a run | `RunSyncsAlone`, `RunSolved` without `Passive`, `SyncedAtPoint` without `~astray`; `Modes = {"GOTO"}` |
| a Sync says where the telescope points; "the in-flight GoTo establishes position anyway" (cpp 1733) | the deferred Sync is sent after that Goto, with the place of before it | `AlignSyncTrue` |
| "Stop Movement" ends a run (mount_bridge_multistar_alignment.md:132, 149-153) | `ABORT_MOUNT` stops the slew; the run takes the stopped mount for arrived, syncs it and counts the point | `SyncedAtPoint` without `~astray`; `Events = {"start", "abort"}` |

Smaller disagreements met while modelling, without a run: an Align that is held
back by a hold or by Off keeps its time of first sight, and is given up at once if
45 s have gone; "none seen yet this connection" (h 613) is in fact this process, since
`Connect()` does not reset it; the header
(around line 556) calls the original-target drift "diagnostic only", while
HOLDING corrects by it (2768-2870); the bootstrap Sync is not gated by
`EXTERNAL_HOLD` and does not look whether the mount is slewing; reconnecting or
changing the correction action leaves a pending confirmation open, so that a
later No starts Auto-correct's slew even with the Sync action selected.

In the Control Center, statements of `server.py`'s comments on the instances of `control.cfg` and
`guard.cfg`, none with a run of its own:

| Statement | What happens | Instance |
|---|---|---|
| the emergency stop's "Coupling -> Off [...] stops Mount Bridge from re-triggering another correction"; "a stop button that only pauses for one tick isn't a stop button" (6979-6986) | the wish for the old mode stays on record, and the readiness watchdog couples the driver again within its next ticks | `StopStaysDecoupled` as invariant of `guard`, `Focus = {"driver"}`: choose a mode, stop, `Poll`, `PollDevices`, `Heal`, `BridgeRepair` (7 states) |
| the button for a restart is guarded because "restarting this process out from under a real run would abort it uncleanly" (5560-5566) | the guard is looked at two seconds before the restart, and a job is accepted in between | `RestartCutsNoJob` as invariant of `control`, `Focus = {"jobs"}` |
| a flag stuck TRUE would be "locking out every other mutex-guarded action" (4268-4273), hence the `try`/`finally` of the threads | what fails before the thread starts (`Popen` in `_start_run()`, 4397-4437; the reply to `/reset`, 5631-5634, and `/uninstall`, 5617-5619) leaves the flag set for good | `JobsEnd` without `stuck` |
| the same `finally` lets the next job in when a thread ends by an exception or, for a mode switch, after 120 s (4109-4115, 4279-4312) | the script it waited for may still run: two then work side by side | `JobsAlone` with `working \cup deserted` for `working` |
| "always starts back OFF"; "Enforce the guarantee for real" (7140-7152) | the clears that follow may fail, PiFinder not being up, and nobody looks (3901-3913, 1927-1928, 7168-7169): PiFinder stays injected | `OffIsOff` with `Cleared` adding only `H \cap queued` to `loose`, not the hosts whose clear failed |
| a failed save only loses "the restart-survival" (2716-2720) | which is what gives the optical trains back after a restart: they keep naming the simulator | `TrainsRemembered` without `unsaved` |

Smaller ones, each seen in a counterexample to a stronger form of the
property named, or in the code while modelling it (lines of `server.py`):

- `DriverReady`: the log says "Not retrying again automatically" (2988-2994), but
  restarts go on as soon as the window has moved on. The thread of the default mode can overwrite what the user chose
  while it waited; that of a link can run after the link was taken back, and
  send "None".
- `HoldFollowsGuiding`: a hold the driver lost by a reconnect, or by a restart
  of its profile during guiding, is not set again while the watchdog believes in it
  (around 1382). When the Control Center restarts while a held driver hangs, the
  hold is not adopted, and the driver is restarted in the middle of the guiding. Once a
  hold has been adopted the branch for drivers without one (`_guiding_hold_supported`)
  cannot be reached.
- `LinkRenewed`: after a restart of the Control Center the first look takes the
  current start of `pifinder.service` for healed (2146-2152), also if the link is dead.
- `ProfileReturns`: the flag of a switch is one Boolean for all requests: the
  first to end clears it while the other is under way (2469-2488). The drivers' handler
  (5905) stops and starts a profile without setting it, so the cold start can
  interfere. The cold start gives up after errors only: calls that succeed
  without effect go on for ever. A failure in the middle of delete-and-recreate loses the
  profile or its drivers (webmanager_client.py 166-193), and the client's lists are read, changed and
  written back without looking for a change in between. Leaving the maintenance
  mode forgets the profile's original flag even if its start failed, and forgets that the user had disconnected
  the driver.
- `ServiceFollowsTarget`: whether `systemctl start` worked is not looked at
  (578-588); the service counts as started.
- `OffIsOff`: off clears this device only, whichever host was fed (1912), and the
  clear can overtake a seed that PiFinder applies later.
- `TrainsRemembered`: the trains are saved once, after the loop (1810), and not at all when an
  unforeseen exception ends it (1813); a setter that times out and takes effect is not
  remembered (1804-1808).
- `JobsAlone`: the start-up thread's later tests take and clear the test's
  flag without looking at it (3544-3555). `/reboot`, `/poweroff` and `/shutdown`
  look at the run's flag alone. A restart asked for by hand overwrites the
  report of a run that warned; the report goes to whoever asks first.

## 5. Proofs

Every theorem below holds for every value of the constants that the assumptions of
its module allow (`BridgeState` for the bridge), and, where it says so, under a
named hypothesis on them. Each inductive invariant was checked by TLC before it was
proved, and for each hypothesis TLC finds a behaviour that breaks the property
without it, so none is there to make a proof easier.
Of the invariants and action properties of the passing runs all but two are
proved; the end of this section has these and the liveness properties.

| Property | Theorem | Hypothesis |
|---|---|---|
| `TypeOK` (bridge) | `MountBridge_proofs!TypeCorrect` | |
| `OneCorrector` | `Arrival_proofs!OneCorrectorAlways` | |
| `ArrivalSolved` | `Arrival_proofs!ArrivalSolvedAlways` | `MaxAge <= SettleTicks` |
| `ForwardAimed` | `Aim_proofs!ForwardAimedAlways` | |
| `HoldQuiet`, `PendingQuiet` | `Aim_proofs!HoldQuietAlways`, `PendingQuietAlways` | |
| `OriginalTargetFixed` | `Aim_proofs!OriginalTargetFixedAlways` | `SettleTicks > 0` |
| `GotoTargetSet` | `Aim_proofs!GotoTargetSetAlways` | `NaNGuarded` |
| `ExternalWins` | `Aim_proofs!ExternalWinsAlways` | |
| settling happens at rest | `Arrival_proofs!SettlesAtRestAlways` | |
| `AlignedTypeOK`, `RunSyncsAlone`, `HeldAligningQuiet` | `Alignment_proofs!AlignedTyped`, `RunSyncsAloneAlways`, `HeldAligningQuietAlways` | |
| `RunSolved` | `Alignment_proofs!RunSolvedAlways` | `ModeKept`, `MaxAge <= SettleTicks + 1` |
| `SyncedAtPoint` | `Alignment_proofs!SyncedAtPointAlways` | |
| `OneWriterPromised` | `ControlCenter_proofs!LeaseKeepsPromise` | |
| `TypeOK` (Control Center) | `ControlCenter_proofs!ControlTyped` | |
| `JobsAlone`, `RestartDecidedAtRest` | `Jobs_proofs!JobsAloneAlways`, `RestartDecidedAtRestAlways` | |
| `TrainsRemembered`, `OffIsOff` | `FullSimulation_proofs!TrainsRememberedAlways`, `OffIsOffAlways` | |
| `TypeOK` (watchdogs) | `Watchdogs_proofs!WatchdogsTyped` | |

### The bridge

`TypeCorrect`: one lemma per operator of the driver (what it sends is a
sequence of commands; what obeying them leaves is a state of the sky), one per
action, and `Next` splits along its disjuncts. It is more than bookkeeping in
one respect: the counters are decremented on many paths, and the theorem says
none runs below zero. For the waits for a solve `TypeOK` is not inductive:
`WaitsLeft` says that a machine that settles has a tick of waiting left.

`OneCorrectorAlways` and `ArrivalSolvedAlways`: neither property is inductive.
`ArrivalInvariant` proves their strengthening
```
ArrivalInv == OneCorrector /\ AskedInMode /\ SettlesAtRest /\ OldSolvesAge
```
- `AskedInMode`: a question is open only in a mode that has a corrector; else a No would start
  the other mode's slew and break `OneCorrector`.
- `SettlesAtRest`: while a state machine settles, the mount is at rest; so no
  further slew can end and set `moved` in the middle of a countdown. It rests on
  `OneCorrector` (nobody else sends the mount off) and on detection taking the machine out of SETTLING
  when it reverts or adopts.
- `OldSolvesAge`: during settling, a solve from before the slew's end is at
  least as old as the countdown has run. With `MaxAge <= SettleTicks` it has
  expired at zero; section 4 has what happens without.

`ForwardAimedAlways`, `PendingQuietAlways`: from
```
AimInv == AskedUnhandled /\ AskedAtRest /\ ForwardAimed
```
An open question ends the tick before a mode's handler acts (`AskedUnhandled`),
so Goto-Forward, at rest when detection asked (it asks only when the slew is not its own), stays
at rest until it is answered (`AskedAtRest`). Without this, the operator's
Yes could record a new target during a slew to the old one, and `ForwardAimed` would not be
inductive. `PendingQuiet` and `HoldQuiet` need to know which steps can
command the mount at all: that is the lemma `Commanders`.

`OriginalTargetFixedAlways`: an adoption changes the original target only
in a tick that was already watching an external motion, because a motion first seen in
this tick has its whole settle time ahead (`AdoptedSeen`): hence `SettleTicks > 0`.

`GotoTargetSetAlways`: `NaNGuarded` says that the horizon guard refuses a NaN (the
site's location is known), or that neither the operator's No nor Auto-correct is
in use, whose paths lack the code's guard against one. `TargetKnown` is the invariant: Goto-Forward slews and
settles only with a target on record.

`ExternalWinsAlways`: `WatchInv` ties what detection watches to the rest. It has an external motion or
a question, never both, and while it has the motion it ends the tick before the handler
(`ExternalUnhandled`), unless it found no position; a handler that finds one then is the race the property
names. Nothing is assumed of solves, modes, holds or restarts.

`SettlesAtRestAlways`: the part of `SyncAtRest` that holds without conditions, and the
part `ArrivalInv` rests on. The other Syncs (recentring, entering the mode, the bootstrap) are not
covered: the entry does sync a slewing mount.

### Alignment

`AlignedTyped`: `WellRun` (a run is at one of its points, has synced only its own, and
waits no longer than it may) and `WellAligned` (no Align is seen before it is made), over `TypeOK`
and `WaitsLeft` of the bridge, whose lemmas are used again: a tick of the
composition is one of the bridge's with two steps in the middle.

`HeldAligningQuietAlways`: under the hold the Align is not looked for and the mode's handlers
are skipped; a run that is under way goes on, which the code wants (cpp 1879, 3706-3712) and the
property excuses.

`RunSyncsAloneAlways`: `PassiveSteps` shows that in Off and Verify/Alert every step that is
neither the run's nor the operator's entry into a correcting mode sends nothing, from
`AskedInMode`: no question is open there, so no answer sends the mount off.

`RunSolvedAlways`: as for `ArrivalSolved`, the run settles at rest (`RunRests`)
and a solve from before the arrival has aged with the countdown (`RunSolveAges`). The
limit is one tick higher than Goto-Forward's, because the countdown starts on the tick
after the arrival was seen; TLC breaks it at `SettleTicks + 2`. `ModeKept`: the correcting modes
are not entered during a run, or not in use.

`SyncedAtPointAlways`: `RunOnPoint` says that, as long as nothing led the mount astray, the mode is one
that leaves it alone, the run's slew goes to the point it is at (or has ended there), and a run that settles
rests there. A departure makes it true anew (`StartAims`, `LeaveAims`), whatever happened at the point before.
No hypothesis is needed: the ways in which a point is counted that was not reached are
what `astray` names, because the code looks whether the mount is at rest, never where.

### The Control Center

`LeaseKeepsPromise`: the Control Center implements
`OneWriterLease`, for every set of browsers and every patience. The refinement
mapping reads an expired lease as nobody's; every step of the lease is then a
step of the promise or invisible, from the type invariant alone
(`LeaseTyped`: the age stays within `Patience`). The interesting step is the heartbeat of a page
that slept: the code renews without looking at the age, and the promise sees a
free lease granted. That the rest of the process leaves the lease alone is
`LeaseOnly`.

`ControlTyped` joins the parts' invariants. Admission's needs a strengthening,
`AdmissionInvariant`: an address collects at most as many wrong answers as the
threshold and the threads that are past the check allow (`CountsBounded`), since the check and the count are not one step.

`JobsAloneAlways` and `RestartDecidedAtRestAlways`: from the
inductive
```
JobsInv == JobsTypeOK /\ Tied /\ OneFlag /\ TestsOwned
```
- `Tied`: a script of this process runs under its thread, a thread under its flag. Without it the end of
  another job could clear the flag of one that works. A flag whose start failed has no thread: it shuts
  the others out, and clears nothing. A script its thread gave up on leaves `working` with it.
- `OneFlag`: at most one flag is set; each handler looks at all five under the lock.
- `TestsOwned`: until the start-up thread repeats its test, whoever tests holds
  the test's flag, and that thread is alone with its first one. The repetition is what
  `JobsAlone` excuses; the theorem says nothing else needs an excuse.
- A run ends with its own flag as the only one, so no script works when it decides on the
  restart.

`TrainsRememberedAlways` and `OffIsOffAlways`: from
`SimulationInv == SimulationTypeOK /\ Recorded /\ Calm`. `Recorded` says for every stage of a
swap and of a restore where the record of a swapped field is: in memory unless it was lost, on disk
unless no save came through since, and during a restore among those to visit or kept for later. `Calm`
says that nothing injects that is not wanted, in every stage, and that once off is complete PiFinder is
fed only by what no clear has dealt with (`loose`). Saves and clears may fail in every stage.

`WatchdogsTyped`: the failures and restarts a watchdog counts stay within their
limits. `TypeOK` is not inductive here either: `WatchdogInv` adds that a repair waiting to
couple the driver has a mode to do it with (`CoupleWished`), and that a request at work has a
profile to work on (`RequestsAimed`). Proved part by part (hold, profiles,
readiness); what one part leaves alone stays as it is (`Apart`).

### Not proved

- `AdoptsRestingPlace`: it counts the disturbances of a behaviour (`AtMost`), and its invariant
  would have to know where each of them left the telescope between two polls.
- `SyncAtRest`: it holds under the conditions of `quiet` only, which are the run's and not the code's;
  what holds without them is `SettlesAtRest`.
- Liveness under fairness, out of TLAPS's reach: `ForwardEnds`, `CorrectEnds`,
  `PushToDelivered`, `ConfirmResolved`, `ExternalResolved`, `TargetHeld`,
  `Agreement`, `RunEnds`, `AlignSettled`, `NoLockout`, `JobsEnd`, `InjectorRevived`, and all of
  `guard` but its type invariant (`DriverReady`, `HoldFollowsGuiding`, `LinkRenewed`,
  `ProfileReturns`, `ServiceFollowsTarget`).

TLC checks these. The modules have no recursive definition.

## 6. Limits of the model

- The driver sees each of its commands reflected (busy, new position) before
  its next tick. A mount that answers later than 2 s is not modelled.
- `isReady()` is true: binding is not modelled, nor the ticks before it.
- RA0/Dec0 is in the sky, since the driver treats it specially, but no event
  leads there.
- A full wire (`WireCap`) delays further push-tos; runs without `push` never fill it.
- With `Forever` < `PassiveTicks` no disagreement is ever plausible; of the passing runs that is so in
  `races` alone. The runs of section 4 have the value they name.
- Manual triggers, the shadow telescope, slew rates and warnings are left out. The
  first of these command the mount, like the hand of another client, which the
  runs have.
- An alignment run that PiFinder proposes no points for is refused before it
  changes anything but the display; it is not an action. Time stamps of Aligns are
  counted, never compared across a clock that is set back.
- The serial protocol, HTTP parsing and rendering are not modelled: they enter as
  "no position on this tick" and "published zero, one or two times".
- The two clocks of a lease (monotonic, in one process) are one; browsers'
  clocks do not matter, as only the server compares times.
- In the Control Center one request changes one driver; the code takes a list and
  goes through it. INDI properties are what the checks compare: connection, mode, link, hold.
- A restart of the Control Center ends all of its threads at once. What a thread was in
  the middle of has happened or not, up to the last call it made.
- One thread runs the readiness tick, the service's sync and the cold start in
  turn; the models let them come in any order, which has more behaviours, not fewer.
- The watchdogs are not composed with the model of the driver: `driver` is the
  part of it the Control Center sees. That a hold keeps it quiet is `HoldQuiet`.

**Not modelled**, with the reason: the PiFinder Simulator driver and the shadow
telescope (they command no mount; the simulator's feedback is a hazard without a property); the binding retry of
the INDI client; the serial protocol of the LX200 driver; the refresh of the mount's time and
place; read-only pages, hardware badges, the mirror of PiFinder's mode, display and keyboard bridges
(they keep no state that others decide by); patches to PiFinder, whose effect is the environment here;
installation scripts (sequential shell over packages and files); the vendored solver.

## 7. Plan

1. **Proofs**: safety facts the liveness properties of `Watchdogs` rest on (one repair at a
   time, a wish that is remembered until it is met), stated as invariants, checked and proved; where an
   external move is adopted, for one disturbance (`AdoptsRestingPlace`).
2. **Models**: `MANUAL_TRIGGER` in `MountBridge`; the binding retry; the simulator composed with
   `MountBridge` (the feedback loop); an abstract at-most-once specification of Align sync.
