------------------------------ MODULE BridgeState ------------------------------
(***************************************************************************)
(* The state of the PiFinder Mount Bridge driver and of what it talks to: *)
(* the mount (through its INDI mirror), PiFinder's camera solver (through  *)
(* /api/status), and PiFinder's push-to target (the LX200 driver's         *)
(* TARGET_EOD_COORD).  The commands the driver can send to the mount and   *)
(* the reads it bases its decisions on are operators of this module; the   *)
(* handlers that use them are in GotoForward, AutoCorrect, Reposition and  *)
(* MountBridge.                                                            *)
(*                                                                         *)
(* A sky position is a member of Pos, or None for a coordinate the code    *)
(* holds as NaN.  Angles are counted in units just above DriftThreshold,   *)
(* so Sep > 0 reads "the two disagree".  Time is counted in poll periods   *)
(* (2 s): a duration of n is one that n ticks of TimerHit() reach.         *)
(***************************************************************************)
EXTENDS Integers, Sequences

CONSTANTS
    Pos,            \* sky positions
    None,           \* NaN: no coordinate recorded
    Origin,         \* the member of Pos that stands for RA0/Dec0
    Sep(_, _),      \* angular separation of two positions
    Carry(_, _, _), \* Carry(s, a, b): where the scope points once the motors moved from a to b
    MaxSync,        \* MaxSyncDriftNP
    MaxAge,         \* SolveFreshnessMaxAgeNP
    SettleTicks,    \* SETTLE_TICKS
    FreshWait,      \* MAX_FRESHNESS_WAIT_TICKS
    Retries,        \* MAX_SETTLE_RETRIES
    ConfirmTicks,   \* REPOSITION_CONFIRM_TIMEOUT_SEC
    OwnWindow,      \* RECENT_SELF_COMMAND_WINDOW_SEC
    PassiveTicks,   \* ticks the sky needs for one unit at MAX_SIDEREAL_DRIFT_ARCMIN_PER_SEC
    Forever,        \* ages saturate here: every drift is plausible after that long
    Below,          \* positions sendMountCoordsSafe() refuses (None too once a location is known)
    Unreachable,    \* positions whose Goto the mount answers with IPS_ALERT
    Copies,         \* numbers of TARGET_EOD_COORD publications one push-to may cause (0: lost)
    Modes, Actions, \* the BRIDGE_MODE and CORRECTION_ACTION settings in use
    Starts,         \* <<scope, mount>> pairs the session may begin with
    Events,         \* the kinds of operator command and disturbance that may occur
    Places,         \* bound: the positions they lead to
    Budget,         \* bound: how many of them a behaviour has
    WireCap,        \* bound: publications on the wire
    WorldPhases     \* bound: the phases of TimerHit() in which the world may change

AllModes   == {"OFF", "VERIFY", "AUTO", "GOTO"}
AllActions == {"SYNC", "GOTO"}

ASSUME PosAssumption ==
    /\ Origin \in Pos /\ None \notin Pos
    /\ \A a, b \in Pos : Sep(a, b) \in Nat
    /\ \A a \in Pos : Sep(a, a) = 0
    /\ \A a, b, c \in Pos : Carry(a, b, c) \in Pos
ASSUME LimitAssumption ==
    /\ {MaxSync, MaxAge, SettleTicks, Retries, OwnWindow, Budget, WireCap} \subseteq Nat
    /\ {FreshWait, ConfirmTicks, PassiveTicks, Forever} \subseteq Nat \ {0}
ASSUME SetAssumption ==
    /\ Below \subseteq Pos \cup {None}
    /\ Unreachable \subseteq Pos
    /\ Copies \subseteq Nat
    /\ Modes \subseteq AllModes /\ Actions \subseteq AllActions
    /\ Starts \subseteq Pos \X Pos /\ Places \subseteq Pos
    /\ WorldPhases \subseteq {"idle", "detect", "act"}

VARIABLES
    sky,    \* scope: where the tube points; mount, goal, rejected: the mount's INDI mirror
    cam,    \* PiFinder's last camera solve and its age; moved: a slew ended since
    tgt,    \* push-to publications on the wire, the one last received, its pending event
    sel,    \* the operator's settings: BRIDGE_MODE, CORRECTION_ACTION, EXTERNAL_HOLD
    fwd,    \* Goto-Forward's state machine
    cor,    \* Auto-correct's Goto state machine
    held,   \* the remembered targets
    rep,    \* reposition detection
    ses,    \* per-connection bookkeeping, and LAST_KNOWN_MOUNT_POS
    tick,   \* TimerHit(): how far it got and the positions it read; aligning: during an
            \* alignment run (see module Alignment; never in MountBridge)
    out,    \* the mount commands the last step sent
    budget  \* what is left of Budget

vars == <<sky, cam, tgt, sel, fwd, cor, held, rep, ses, tick, out, budget>>

MaybePos == Pos \cup {None}

------------------------------------------------------------------------------
(* Ages count ticks and saturate.                                          *)
Older(age, cap) == IF age < cap THEN age + 1 ELSE age

Stale == MaxAge + 1

(* isPiFinderSolveFresh(): the last solve came from the camera and is not  *)
(* older than SolveFreshnessMaxAge.                                        *)
Fresh == cam.age <= MaxAge

(* httpGetPiFinderFreshCamPosition(): the same, and not suspiciously close *)
(* to RA0/Dec0; the position read is then the solve's.                     *)
Trusted(solve) == solve.age <= MaxAge /\ solve.at # Origin
FreshPosition == Trusted(cam)

(* isMountSlewing(): the mirror of the mount's EQUATORIAL_EOD_COORD is     *)
(* BUSY.                                                                   *)
MountSlewing == sky.goal # None

------------------------------------------------------------------------------
(* Commands to the mount.                                                  *)
Sync(p)  == [op |-> "SYNC", at |-> p]
Track(p) == [op |-> "TRACK", at |-> p]

(* sendMountCoordsSafe() refuses what is below the horizon margin.  (The   *)
(* mutant sends it.)                                                       *)
NothingRefused(p) == FALSE
Refused(p) == p \in Below

(* What is sent by sendMountCoordsSafe(p) alone, and by the ubiquitous     *)
(* sendMountCoordsSafe(p, "SYNC") && sendMountCoordsSafe(q, "TRACK").      *)
JustSync(p)  == IF Refused(p) THEN <<>> ELSE <<Sync(p)>>
JustTrack(p) == IF Refused(p) THEN <<>> ELSE <<Track(p)>>
SyncThenTrack(p, q) ==
    IF Refused(p) THEN <<>>
    ELSE IF Refused(q) THEN <<Sync(p)>> ELSE <<Sync(p), Track(q)>>
BothSent(cmds) == Len(cmds) = 2

(* A residual beyond DriftThreshold and within MaxSyncDrift.  (The mutant  *)
(* excludes the cap itself.)                                               *)
CorrectableBelow(residual) == 0 < residual /\ residual < MaxSync
Correctable(residual) == 0 < residual /\ residual <= MaxSync

(* The mount's side (external): a Sync redefines where it believes it is;  *)
(* a Track starts a slew, is answered by IPS_ALERT, or, given NaN, goes to *)
(* RA0/Dec0.  Every command first clears m_mountRejectedLastCoords.        *)
Coerced(p) == IF p = None THEN Origin ELSE p
Obey(m, c) ==
    IF c.op = "SYNC" THEN [m EXCEPT !.mount = Coerced(c.at), !.rejected = FALSE]
    ELSE IF Coerced(c.at) \in Unreachable THEN [m EXCEPT !.rejected = TRUE]
    ELSE [m EXCEPT !.goal = Coerced(c.at), !.rejected = FALSE]
ObeyAll(m, cmds) ==
    IF Len(cmds) = 0 THEN m
    ELSE IF Len(cmds) = 1 THEN Obey(m, cmds[1])
    ELSE Obey(Obey(m, cmds[1]), cmds[2])

(* sendMountCoords(): what the mount does and m_lastMountCommandTime.      *)
Send(cmds) ==
    /\ out' = cmds
    /\ sky' = ObeyAll(sky, cmds)
    /\ ses' = IF cmds = <<>> THEN ses ELSE [ses EXCEPT !.cmdAge = 0]

SendNothing == out' = <<>> /\ UNCHANGED <<sky, ses>>

(* A push-to reaches the LX200 driver, which publishes it, once when the   *)
(* Goto comes in and once when it polls the changed value; 0: it failed.   *)
Publication(p, by) == [at |-> p, by |-> by]
Request(p, by) ==
    \E n \in Copies :
        /\ Len(tgt.wire) + n <= WireCap
        /\ tgt' = [tgt EXCEPT !.wire = @ \o [i \in 1..n |-> Publication(p, by)]]

(* notifyPiFinderOfReposition(): push the adopted position to PiFinder,    *)
(* and, unless that failed, expect its echo instead of an earlier one's.   *)
NotifyPiFinder(p, echo) ==
    \/ echo = p /\ Request(p, "bridge")
    \/ echo = held.notified /\ 0 \in Copies /\ UNCHANGED tgt

------------------------------------------------------------------------------
(* The moves both state machines make, Goto-Forward's and Auto-correct's:  *)
(* a slew was sent; it has ended; give up, or start over.  (The mutants    *)
(* forget to arm the freshness wait, to settle, and to reset.)             *)
Slewing(machine)  == [machine EXCEPT !.state = "SLEWING", !.retries = Retries]
SettlingUnarmed(machine) == [machine EXCEPT !.state = "SETTLING", !.settle = SettleTicks]
SettlingAtOnce(machine) == [machine EXCEPT !.state = "SETTLING", !.settle = 0, !.wait = FreshWait]
NotReset(machine) == machine
Settling(machine) == [machine EXCEPT !.state = "SETTLING", !.settle = SettleTicks, !.wait = FreshWait]
Reset(machine)    == [machine EXCEPT !.state = "IDLE"]

(* The driver's state right after its process starts, and the session's    *)
(* first state.  A solve may already exist; whether it is fresh, nobody    *)
(* knows.                                                                  *)
IdleForward == [state |-> "IDLE", settle |-> 0, wait |-> 0, retries |-> 0, awaiting |-> FALSE]
IdleCorrect == [state |-> "IDLE", settle |-> 0, wait |-> 0, retries |-> 0]
NothingHeld == [forwarded |-> None, original |-> None, correct |-> None, notified |-> None]
NoReposition ==
    [ext |-> FALSE, settle |-> 0, polled |-> None, polledAge |-> Forever,
     goodAge |-> Forever, trusted |-> FALSE, confirm |-> FALSE, deadline |-> 0]
NoTick == [phase |-> "idle", pi |-> None, mount |-> None, aligning |-> FALSE]

Init ==
    /\ \E s \in Starts :
          /\ sky = [scope |-> s[1], mount |-> s[2], goal |-> None, rejected |-> FALSE]
          /\ cam = [at |-> s[1], age |-> Stale, moved |-> FALSE]
    /\ tgt = [wire |-> <<>>, at |-> None, pending |-> "none"]
    /\ \E m \in Modes, a \in Actions : sel = [mode |-> m, action |-> a, hold |-> FALSE]
    /\ fwd = IdleForward
    /\ cor = IdleCorrect
    /\ held = NothingHeld
    /\ rep = NoReposition
    /\ ses = [cmdAge |-> OwnWindow, didInit |-> FALSE, known |-> Origin]
    /\ tick = NoTick
    /\ out = <<>>
    /\ budget = Budget

------------------------------------------------------------------------------
Sources == {"none", "user", "bridge"}
Publications == [at : Pos, by : Sources]
Commands == [op : {"SYNC", "TRACK"}, at : MaybePos]
CommandLists == {cmds \in Seq(Commands) : Len(cmds) <= 2}
MountStates == [scope : Pos, mount : Pos, goal : MaybePos, rejected : BOOLEAN]
Solves == [at : Pos, age : 0..Stale, moved : BOOLEAN]
TargetStates == [wire : Seq(Publications), at : MaybePos, pending : Sources]
Settings == [mode : Modes, action : Actions, hold : BOOLEAN]
ForwardStates ==
    [state : {"IDLE", "SLEWING", "SETTLING", "HOLDING"}, settle : 0..SettleTicks,
     wait : 0..FreshWait, retries : 0..Retries, awaiting : BOOLEAN]
CorrectStates ==
    [state : {"IDLE", "SLEWING", "SETTLING"}, settle : 0..SettleTicks,
     wait : 0..FreshWait, retries : 0..Retries]
HeldTargets ==
    [forwarded : MaybePos, original : MaybePos, correct : MaybePos, notified : MaybePos]
Detections ==
    [ext : BOOLEAN, settle : 0..SettleTicks, polled : MaybePos, polledAge : 0..Forever,
     goodAge : 0..Forever, trusted : BOOLEAN, confirm : BOOLEAN, deadline : 0..ConfirmTicks]
SessionStates == [cmdAge : 0..OwnWindow, didInit : BOOLEAN, known : Pos]
Ticks ==
    [phase : {"idle", "run", "align", "detect", "act"}, pi : MaybePos, mount : MaybePos,
     aligning : BOOLEAN]

TypeOK ==
    /\ sky \in MountStates
    /\ cam \in Solves
    /\ tgt \in TargetStates
    /\ sel \in Settings
    /\ fwd \in ForwardStates
    /\ cor \in CorrectStates
    /\ held \in HeldTargets
    /\ rep \in Detections
    /\ ses \in SessionStates
    /\ tick \in Ticks
    /\ out \in CommandLists
    /\ budget \in 0..Budget
================================================================================
