-------------------------------- MODULE Aim_proofs --------------------------------
(***************************************************************************)
(* Proofs of what the Mount Bridge sends the mount, and when: the slew it  *)
(* verifies is the one it sent, no unrecorded coordinate is sent, only the *)
(* user changes the original target, and no tick commands the mount under a *)
(* hold, an open question or another hand.                                 *)
(***************************************************************************)
EXTENDS Arrival_proofs

(* An open question ends the tick before a mode's handler acts, ...        *)
AskedUnhandled == tick.phase = "act" /\ rep.confirm => ~DetectionApplies

(* ... so Goto-Forward, which was at rest when it was asked, stays so.     *)
AskedAtRest == rep.confirm => fwd.state # "SLEWING"

AimInv == AskedUnhandled /\ AskedAtRest /\ ForwardAimed

------------------------------------------------------------------------------
(* A Sync and a Goto, both sent, take the mount to the Goto's coordinate,  *)
(* unless it refuses to go there.                                          *)
LEMMA TrackAims ==
    ASSUME TypeOK, NEW p \in MaybePos, NEW q \in MaybePos, BothSent(SyncThenTrack(p, q)),
           sky' = ObeyAll(sky, SyncThenTrack(p, q))
    PROVE  sky'.goal = Coerced(q) \/ Coerced(q) \in Unreachable
<1>1. Len(<<>>) = 0 /\ Len(<<Sync(p)>>) = 1 /\ Len(<<Sync(p), Track(q)>>) = 2
  OBVIOUS
<1>2. SyncThenTrack(p, q) = <<Sync(p), Track(q)>>
  BY <1>1 DEF SyncThenTrack, BothSent
<1>3. sky' = Obey(Obey(sky, Sync(p)), Track(q))
  BY <1>1, <1>2 DEF ObeyAll
<1>4. Obey(sky, Sync(p)) \in MountStates
  <2>1. Obey(sky, Sync(p)) = [sky EXCEPT !.mount = Coerced(p), !.rejected = FALSE]
    BY DEF Obey, Sync
  <2>2. Coerced(p) \in Pos
    BY PosAssumption DEF Coerced, MaybePos
  <2>3. QED  BY <2>1, <2>2 DEF TypeOK, MountStates
<1>5. SUFFICES ASSUME Coerced(q) \notin Unreachable
               PROVE  sky'.goal = Coerced(q)
  OBVIOUS
<1>6. sky' = [Obey(sky, Sync(p)) EXCEPT !.goal = Coerced(q), !.rejected = FALSE]
  BY <1>3, <1>5 DEF Obey, Track
<1>7. QED  BY <1>4, <1>6 DEF MountStates

(* Looking at an event leaves the targets alone.                           *)
LEMMA ConsumeKeeps ==
    ASSUME TypeOK
    PROVE  /\ HeldAfterConsume.forwarded = held.forwarded
           /\ HeldAfterConsume.original = held.original
           /\ HeldAfterConsume \in HeldTargets
BY EventType DEF HeldAfterConsume, TypeOK, HeldTargets

(* The bounds of Goto-Forward's handler.                                   *)
LEMMA ForwardBounds ==
    ASSUME TypeOK, HandleGotoForward
    PROVE  /\ tick.phase = "act" /\ tick'.phase = "idle" /\ sel.mode = "GOTO" /\ ~sel.hold
           /\ UNCHANGED <<cam, sel, cor>> /\ rep'.confirm = rep.confirm
<1>1. /\ tick.phase = "act" /\ tick'.phase = "idle" /\ sel.mode = "GOTO" /\ ~sel.hold
      /\ UNCHANGED <<cam, sel, cor>>
  BY DEF HandleGotoForward, ForwardNoTarget, ForwardBaseline, ForwardTarget, DeferTarget,
         ForwardSlewing, ForwardSettling, ForwardRejected, ForwardSettleWait, ForwardFreshWait,
         ForwardVerified, ForwardRetry, ForwardHolding, ForwardWatch, ForwardRecenter,
         Forwarding, NoTick
<1>2. [rep EXCEPT !.polled = cam.at, !.polledAge = 0].confirm = rep.confirm
  BY DEF TypeOK, Detections
<1>3. rep'.confirm = rep.confirm
  BY <1>2
  DEF HandleGotoForward, ForwardNoTarget, ForwardBaseline, ForwardTarget, DeferTarget,
      ForwardSlewing, ForwardSettling, ForwardRejected, ForwardSettleWait, ForwardFreshWait,
      ForwardVerified, ForwardRetry, ForwardWatch, ForwardRecenter
<1>4. QED  BY <1>1, <1>3

LEMMA CorrectBounds ==
    ASSUME HandleAutoCorrect
    PROVE  /\ tick.phase = "act" /\ tick'.phase = "idle" /\ sel.mode = "AUTO" /\ ~sel.hold
           /\ tick.pi # None /\ UNCHANGED <<cam, tgt, sel, fwd, rep>>
           /\ held' = held \/ held' = [held EXCEPT !.correct = tick.pi]
<1>1. held' = held \/ held' = [held EXCEPT !.correct = tick.pi]
  BY DEF HandleAutoCorrect, CorrectBySync, CorrectMonitor, CorrectStart, CorrectSlewing,
         CorrectSettling, CorrectRejected, CorrectSettleWait, CorrectFreshWait, CorrectVerified,
         CorrectRetry
<1>2. QED
  BY <1>1
  DEF HandleAutoCorrect, CorrectBySync, CorrectMonitor, CorrectStart, CorrectSlewing,
      CorrectSettling, CorrectRejected, CorrectSettleWait, CorrectFreshWait, CorrectVerified,
      CorrectRetry, Correcting, NoTick

(* Reposition detection reverts, adopts, or leaves all but its own record. *)
RepositionWatches ==
    /\ UNCHANGED <<sky, tgt, fwd, cor, held, ses>> /\ out' = <<>>
    /\ tick'.phase = "act" => ~rep'.confirm
    /\ rep'.confirm => rep.confirm \/ fwd.state # "SLEWING"

LEMMA RepositionCases ==
    ASSUME TypeOK, HandleReposition
    PROVE  /\ tick.phase = "detect" /\ DetectionApplies /\ UNCHANGED <<cam, sel>>
           /\ TimeoutRevert \/ AdoptReposition \/ RepositionWatches
<1>1. tick.phase = "detect" /\ DetectionApplies /\ UNCHANGED <<cam, sel>>
  BY DEF HandleReposition, PendingWait, TimeoutBlind, TimeoutRevert, NoPositions,
         ExternalSettling, ExternalAwaitSolve, AdoptReposition, OwnMotionOrStale, ConfirmedGood,
         NotSuspicious, AskOperator, Watching, Classifying, Detecting
<1>2. Polled \in Detections /\ Polled.confirm = rep.confirm
  BY PolledType DEF Polled, TypeOK, Detections
<1>3. rep \in Detections /\ NoTick.phase = "idle"
  BY DEF TypeOK, NoTick
<1>4. CASE PendingWait
  BY <1>3, <1>4 DEF PendingWait, Detecting, Handled, SendNothing, RepositionWatches
<1>5. CASE TimeoutBlind
  <2>1. ~rep'.confirm
    BY <1>3, <1>5 DEF TimeoutBlind, Detections
  <2>2. QED  BY <1>5, <2>1 DEF TimeoutBlind, Detecting, SendNothing, RepositionWatches
<1>6. CASE NoPositions
  BY <1>6 DEF NoPositions, Detecting, SendNothing, RepositionWatches
<1>7. ASSUME Watching, ~rep'.confirm, UNCHANGED <<tgt, fwd, cor, held>>
      PROVE  RepositionWatches
  BY <1>7 DEF Watching, SendNothing, RepositionWatches
<1>8. CASE ExternalSettling \/ ExternalAwaitSolve
  <2>1. Watching /\ ~rep'.confirm
    BY <1>2, <1>8 DEF ExternalSettling, ExternalAwaitSolve, Watching, Detections
  <2>2. UNCHANGED <<tgt, fwd, cor, held>>
    BY <1>8 DEF ExternalSettling, ExternalAwaitSolve
  <2>3. QED  BY <1>1, <1>7, <2>1, <2>2
<1>9. CASE OwnMotionOrStale \/ NotSuspicious \/ ConfirmedGood
  <2>1. Watching /\ ~rep'.confirm
    BY <1>2, <1>9
    DEF OwnMotionOrStale, NotSuspicious, ConfirmedGood, Classifying, Watching, Detections
  <2>2. UNCHANGED <<tgt, fwd, cor, held>>
    BY <1>9 DEF OwnMotionOrStale, NotSuspicious, ConfirmedGood, Classifying
  <2>3. QED  BY <1>1, <1>7, <2>1, <2>2
<1>10. CASE AskOperator
  <2>1. fwd.state # "SLEWING"
    BY <1>10 DEF AskOperator, Judging, WeCommandedIt
  <2>2. tick'.phase = "idle"
    BY <1>3, <1>10 DEF AskOperator, Handled
  <2>3. Watching /\ UNCHANGED <<tgt, fwd, cor, held>>
    BY <1>10 DEF AskOperator, Classifying
  <2>4. QED  BY <1>1, <2>1, <2>2, <2>3 DEF Watching, SendNothing, RepositionWatches
<1>11. QED
  BY <1>1, <1>4, <1>5, <1>6, <1>8, <1>9, <1>10 DEF HandleReposition

------------------------------------------------------------------------------
(* What a step that leaves Goto-Forward alone, or at rest, and starts no   *)
(* slew does to its aim.                                                   *)
LEMMA QuietAim ==
    ASSUME AimInv, fwd'.state = "SLEWING" => fwd' = fwd /\ held'.forwarded = held.forwarded,
           sky'.goal = sky.goal \/ sky'.goal = None
    PROVE  ForwardAimed'
BY DEF AimInv, ForwardAimed, MountSlewing

LEMMA ForwardAim ==
    ASSUME TypeOK, AimInv, HandleGotoForward
    PROVE  AimInv'
<1>1. AskedUnhandled' /\ AskedAtRest'
  BY ForwardBounds DEF AimInv, AskedUnhandled, AskedAtRest, DetectionApplies
<1>2. cam.at \in MaybePos /\ tgt.at \in MaybePos /\ held.forwarded \in MaybePos
      /\ HeldPosition \in MaybePos
  BY DEF TypeOK, Solves, TargetStates, HeldTargets, HeldPosition, MaybePos
<1>3. CASE ForwardTarget
  <2>1. BothSent(SyncThenTrack(cam.at, tgt.at)) /\ sky' = ObeyAll(sky, SyncThenTrack(cam.at, tgt.at))
    <3>1. Len(<<>>) = 0
      OBVIOUS
    <3>2. QED  BY <1>3, <3>1 DEF ForwardTarget, ForwardCommands, BothSent, Send
  <2>2. held'.forwarded = tgt.at
    BY <1>3, ConsumeKeeps DEF ForwardTarget, HeldTargets
  <2>3. QED  BY <1>1, <1>2, <2>1, <2>2, TrackAims DEF AimInv, ForwardAimed
<1>4. CASE ForwardRetry
  <2>1. CASE BothSent(SyncThenTrack(cam.at, held.forwarded))
    <3>1. sky' = ObeyAll(sky, SyncThenTrack(cam.at, held.forwarded)) /\ held' = held
      BY <1>4 DEF ForwardRetry, ForwardSettling, Send
    <3>2. QED  BY <1>1, <1>2, <2>1, <3>1, TrackAims DEF AimInv, ForwardAimed
  <2>2. CASE ~BothSent(SyncThenTrack(cam.at, held.forwarded))
    <3>1. fwd'.state = "IDLE"
      BY <1>4, <2>2 DEF ForwardRetry, TypeOK, ForwardStates
    <3>2. QED  BY <1>1, <3>1 DEF AimInv, ForwardAimed
  <2>3. QED  BY <2>1, <2>2
<1>5. CASE ForwardRecenter
  <2>1. CASE BothSent(SyncThenTrack(cam.at, HeldPosition))
    <3>1. sky' = ObeyAll(sky, SyncThenTrack(cam.at, HeldPosition)) /\ held' = Recentered
      BY <1>5, <2>1 DEF ForwardRecenter, Send
    <3>2. held'.forwarded = HeldPosition
      BY <3>1, ConsumeKeeps DEF Recentered, HeldAfterHolding, TypeOK, HeldTargets
    <3>3. QED  BY <1>1, <1>2, <2>1, <3>1, <3>2, TrackAims DEF AimInv, ForwardAimed
  <2>2. CASE ~BothSent(SyncThenTrack(cam.at, HeldPosition))
    <3>1. fwd'.state = "HOLDING"
      BY <1>5, <2>2 DEF ForwardRecenter, ForwardHolding, Forwarding
    <3>2. QED  BY <1>1, <3>1 DEF AimInv, ForwardAimed
  <2>3. QED  BY <2>1, <2>2
<1>6. CASE ForwardSlewing
  <2>1. fwd'.state = "SLEWING" => fwd' = fwd
    BY <1>6 DEF ForwardSlewing, Settling, TypeOK, ForwardStates
  <2>2. held' = held /\ sky' = sky
    BY <1>6 DEF ForwardSlewing, SendNothing
  <2>3. QED  BY <1>1, <2>1, <2>2, QuietAim DEF AimInv
<1>7. CASE ForwardNoTarget \/ ForwardBaseline \/ DeferTarget
  <2>1. fwd'.state # "SLEWING"
    BY <1>7 DEF ForwardNoTarget, ForwardBaseline, DeferTarget, Forwarding, TypeOK, ForwardStates
  <2>2. QED  BY <1>1, <2>1 DEF AimInv, ForwardAimed
<1>8. CASE ForwardRejected \/ ForwardSettleWait \/ ForwardFreshWait \/ ForwardVerified
  <2>1. fwd'.state # "SLEWING"
    BY <1>8 DEF ForwardRejected, ForwardSettleWait, ForwardFreshWait, ForwardVerified,
                ForwardSettling, Forwarding, TypeOK, ForwardStates
  <2>2. QED  BY <1>1, <2>1 DEF AimInv, ForwardAimed
<1>9. CASE ForwardWatch
  <2>1. fwd'.state # "SLEWING"
    BY <1>9 DEF ForwardWatch, ForwardHolding, Forwarding
  <2>2. QED  BY <1>1, <2>1 DEF AimInv, ForwardAimed
<1>10. QED
  BY <1>3, <1>4, <1>5, <1>6, <1>7, <1>8, <1>9 DEF HandleGotoForward

(* Auto-correct works while Goto-Forward rests.                            *)
LEMMA CorrectAim ==
    ASSUME TypeOK, AimInv, OneCorrector, HandleAutoCorrect
    PROVE  AimInv'
<1>1. fwd'.state # "SLEWING"
  BY CorrectBounds DEF OneCorrector
<1>2. QED
  BY <1>1, CorrectBounds DEF AimInv, AskedUnhandled, AskedAtRest, ForwardAimed

(* A revert sends the mount to what is then held; until then Goto-Forward  *)
(* was at rest.                                                            *)
LEMMA RevertAim ==
    ASSUME TypeOK, AimInv, rep.confirm, ~rep'.confirm,
           NEW p \in MaybePos, NEW q \in MaybePos, Revert(p, q), held'.forwarded = q
    PROVE  AimInv'
<1>1. fwd.state # "SLEWING"
  BY DEF AimInv, AskedAtRest
<1>2. CASE BothSent(SyncThenTrack(p, q))
  <2>1. sky' = ObeyAll(sky, SyncThenTrack(p, q))
    BY DEF Revert, Send
  <2>2. QED
    BY <1>2, <2>1, TrackAims DEF AimInv, AskedUnhandled, AskedAtRest, ForwardAimed
<1>3. CASE ~BothSent(SyncThenTrack(p, q))
  BY <1>1, <1>3 DEF Revert, AimInv, AskedUnhandled, AskedAtRest, ForwardAimed
<1>4. QED  BY <1>2, <1>3

LEMMA RepositionAim ==
    ASSUME TypeOK, AimInv, HandleReposition
    PROVE  AimInv'
<1>1. CASE TimeoutRevert
  <2>1. tick.pi \in MaybePos /\ RevertTarget \in MaybePos
    BY DEF RevertTarget, TypeOK, Ticks, HeldTargets
  <2>2. rep.confirm /\ ~rep'.confirm
    BY <1>1 DEF TimeoutRevert, TypeOK, Detections
  <2>3. held'.forwarded = RevertTarget
    BY <1>1 DEF TimeoutRevert, RevertTarget, Adopt
  <2>4. QED  BY <1>1, <2>1, <2>2, <2>3, RevertAim DEF TimeoutRevert
<1>2. CASE AdoptReposition
  <2>1. tick'.phase = "idle" /\ fwd'.state = "HOLDING"
    BY <1>2 DEF AdoptReposition, Handled, NoTick, TypeOK, ForwardStates
  <2>2. QED  BY <2>1 DEF AimInv, AskedUnhandled, AskedAtRest, ForwardAimed
<1>3. CASE RepositionWatches
  <2>1. AskedUnhandled' /\ AskedAtRest'
    BY <1>3 DEF RepositionWatches, AimInv, AskedUnhandled, AskedAtRest
  <2>2. QED  BY <1>3, <2>1, QuietAim DEF RepositionWatches, AimInv
<1>4. QED  BY <1>1, <1>2, <1>3, RepositionCases

LEMMA TickAim ==
    ASSUME TypeOK, TypeOK', AimInv, OneCorrector, Tick
    PROVE  AimInv'
<1>1. CASE TickStart
  <2>1. /\ tick'.phase = "detect" /\ UNCHANGED <<fwd, held>> /\ rep'.confirm = rep.confirm
    BY <1>1 DEF TickStart, BeginTick, Positions, NoTick, TypeOK, Detections
  <2>2. sky'.goal = sky.goal
    <3>1. cam'.at \in MaybePos
      BY DEF TypeOK, Solves, MaybePos
    <3>2. QED  BY <1>1, <3>1, SyncStartsNothing DEF TickStart, BeginTick, BootCommands
  <2>3. ForwardAimed'
    BY <2>1, <2>2, QuietAim
  <2>4. QED  BY <2>1, <2>3 DEF AimInv, AskedUnhandled, AskedAtRest
<1>2. CASE SkipDetection \/ JustWatch
  <2>1. UNCHANGED <<sky, sel, fwd, held, rep>>
    BY <1>2 DEF SkipDetection, JustWatch
  <2>2. tick'.phase = "idle" \/ ~DetectionApplies
    BY <1>2 DEF SkipDetection, JustWatch, NoTick
  <2>3. QED
    BY <2>1, <2>2, QuietAim DEF AimInv, AskedUnhandled, AskedAtRest, DetectionApplies
<1>3. QED
  BY <1>1, <1>2, RepositionAim, ForwardAim, CorrectAim DEF Tick, RestOfTick

(* The operator: a mode, a hold or a reconnect starts no slew, and only a  *)
(* No to a question sends the mount back.                                  *)
LEMMA InstructAim ==
    ASSUME TypeOK, AimInv, Instruct
    PROVE  AimInv'
<1>1. NoTick.phase = "idle"
  BY DEF NoTick
<1>2. ASSUME fwd'.state = "IDLE", tick'.phase = "idle"
      PROVE  AimInv'
  BY <1>2 DEF AimInv, AskedUnhandled, AskedAtRest, ForwardAimed
<1>3. CASE Restart
  <2>1. fwd'.state = "IDLE" /\ tick'.phase = "idle"
    BY <1>1, <1>3 DEF Restart, IdleForward
  <2>2. QED  BY <1>2, <2>1
<1>4. ASSUME NEW mode \in Modes, SetMode(mode)
      PROVE  AimInv'
  <2>1. fwd'.state = "IDLE" /\ tick'.phase = "idle"
    BY <1>4, ResetTypes DEF SetMode, BetweenTicks
  <2>2. QED  BY <1>2, <2>1
<1>5. ASSUME UNCHANGED <<sky, fwd, held, rep>>, BetweenTicks
      PROVE  AimInv'
  BY <1>5, QuietAim DEF AimInv, AskedUnhandled, AskedAtRest, BetweenTicks
<1>6. ASSUME NEW action \in Actions, SetAction(action)
      PROVE  AimInv'
  BY <1>5, <1>6 DEF SetAction, SendNothing
<1>7. ASSUME NEW hold \in BOOLEAN, SetHold(hold)
      PROVE  AimInv'
  BY <1>5, <1>7 DEF SetHold, SendNothing
<1>8. CASE Reconnect
  BY <1>5, <1>8 DEF Reconnect
<1>9. CASE ConfirmYes
  <2>1. fwd.state # "SLEWING"
    BY <1>9 DEF ConfirmYes, Answering, AimInv, AskedAtRest
  <2>2. fwd'.state # "SLEWING"
    BY <1>9, <2>1, ResetTypes DEF ConfirmYes
  <2>3. tick'.phase = "idle"
    BY <1>9 DEF ConfirmYes, Answering, BetweenTicks
  <2>4. QED  BY <2>2, <2>3 DEF AimInv, AskedUnhandled, AskedAtRest, ForwardAimed
<1>10. CASE ConfirmNo
  <2>1. rep.confirm /\ ~rep'.confirm /\ held' = held
    BY <1>10 DEF ConfirmNo, Answering, TypeOK, Detections
  <2>2. CASE FreshPosition
    <3>1. cam.at \in MaybePos /\ held.forwarded \in MaybePos
      BY DEF TypeOK, Solves, HeldTargets, MaybePos
    <3>2. Revert(cam.at, held.forwarded) /\ held'.forwarded = held.forwarded
      BY <1>10, <2>1, <2>2 DEF ConfirmNo
    <3>3. QED  BY <2>1, <3>1, <3>2, RevertAim
  <2>3. CASE ~FreshPosition
    <3>1. fwd' = fwd /\ fwd.state # "SLEWING"
      BY <1>10, <2>1, <2>3 DEF ConfirmNo, AimInv, AskedAtRest
    <3>2. tick'.phase = "idle"
      BY <1>10 DEF ConfirmNo, Answering, BetweenTicks
    <3>3. QED  BY <3>1, <3>2 DEF AimInv, AskedUnhandled, AskedAtRest, ForwardAimed
  <2>4. QED  BY <2>2, <2>3
<1>11. QED  BY <1>3, <1>4, <1>6, <1>7, <1>8, <1>9, <1>10 DEF Instruct, Ask

(* The world may end a slew, or stop it, but start none.                   *)
LEMMA WorldAim ==
    ASSUME TypeOK, AimInv, AbortMount \/ SomePushTo \/ World
    PROVE  AimInv'
<1>1. UNCHANGED <<sel, fwd, held, rep>> /\ (tick' = tick \/ tick'.phase = "idle")
  BY DEF AbortMount, Halt, SomePushTo, PushTo, World, Arrive, Solve, Expire, Publish, ExternalMove,
         Slip, Outside, BetweenTicks
<1>2. sky' = sky \/ sky'.goal = sky.goal \/ sky'.goal = None
  BY DEF AbortMount, Halt, SomePushTo, PushTo, World, Arrive, Solve, Expire, Publish, ExternalMove,
         Slip, StoppedAt, TypeOK, MountStates
<1>3. ForwardAimed'
  BY <1>1, <1>2, QuietAim
<1>4. QED  BY <1>1, <1>3 DEF AimInv, AskedUnhandled, AskedAtRest, DetectionApplies

------------------------------------------------------------------------------
LEMMA AimInvariant == Spec => []AimInv
<1>1. Init => AimInv
  BY DEF Init, IdleForward, NoReposition, AimInv, AskedUnhandled, AskedAtRest, ForwardAimed
<1>2. TypeOK /\ TypeOK' /\ OneCorrector /\ AimInv /\ [Next]_vars => AimInv'
  <2> SUFFICES ASSUME TypeOK, TypeOK', OneCorrector, AimInv, [Next]_vars PROVE AimInv'
    OBVIOUS
  <2>1. CASE UNCHANGED vars
    BY <2>1
    DEF vars, AimInv, AskedUnhandled, AskedAtRest, ForwardAimed, DetectionApplies, MountSlewing
  <2>2. CASE Next
    BY <2>2, TickAim, InstructAim, WorldAim DEF Next
  <2>3. QED  BY <2>1, <2>2
<1>3. QED  BY <1>1, <1>2, TypeCorrect, OneCorrectorAlways, PTL DEF Spec

(* What SETTLING verifies is what was sent: while Goto-Forward slews, the  *)
(* mount is on its way to m_lastForwarded, or refused to go there.         *)
THEOREM ForwardAimedAlways == Spec => []ForwardAimed
<1>1. AimInv => ForwardAimed
  BY DEF AimInv
<1>2. QED  BY <1>1, AimInvariant, PTL

------------------------------------------------------------------------------
(* Which steps of a tick, and which others, can command the mount.         *)
LEMMA Commanders ==
    ASSUME TypeOK, Next, TickStep, ses.didInit, out' # <<>>
    PROVE  TimeoutRevert \/ HandleGotoForward \/ HandleAutoCorrect
<1>1. ~AbortMount /\ ~SomePushTo /\ ~World
  BY DEF AbortMount, Halt, SomePushTo, PushTo, World, Arrive, Solve, Expire, Publish, ExternalMove,
         Slip, Outside
<1>2. ~Instruct
  BY DEF Instruct, Ask, SetMode, SetAction, SetHold, ConfirmYes, ConfirmNo, Answering, Reconnect,
         Restart, BetweenTicks, TickStep
<1>3. ~TickStart
  BY DEF TickStart, BeginTick, BootCommands, Bootstrapping
<1>4. ~SkipDetection /\ ~JustWatch
  BY DEF SkipDetection, JustWatch
<1>5. ~AdoptReposition /\ ~RepositionWatches
  BY DEF AdoptReposition, Watching, SendNothing, RepositionWatches
<1>6. QED
  BY <1>1, <1>2, <1>3, <1>4, <1>5, RepositionCases DEF Next, Tick, RestOfTick

(* Under the external hold, the poll timer never commands the mount,       *)
(* whatever was in flight when the hold was taken.                         *)
THEOREM HoldQuietAlways == Spec => HoldQuiet
<1>1. TypeOK /\ [Next]_vars => [sel.hold /\ ses.didInit /\ TickStep => out' = <<>>]_vars
  <2> SUFFICES ASSUME TypeOK, Next, sel.hold, ses.didInit, TickStep, out' # <<>> PROVE FALSE
    OBVIOUS
  <2>1. ~TimeoutRevert
    BY DEF TimeoutRevert, Detecting, DetectionApplies
  <2>2. QED  BY <2>1, Commanders, ForwardBounds, CorrectBounds
<1>2. QED  BY <1>1, TypeCorrect, PTL DEF Spec, HoldQuiet

(* Nor while it waits for the operator's answer, in the modes and with the *)
(* action that ask: PendingQuiet is TimerHit()'s part of Fall 4.           *)
THEOREM PendingQuietAlways == Spec => PendingQuiet
<1>1. TypeOK /\ AimInv /\ [Next]_vars =>
          [rep.confirm /\ rep'.confirm /\ ses.didInit /\ (DetectionApplies \/ sel.hold) /\ TickStep
              => out' = <<>>]_vars
  <2> SUFFICES ASSUME TypeOK, AimInv, Next, rep.confirm, rep'.confirm, ses.didInit,
                      DetectionApplies \/ sel.hold, TickStep, out' # <<>>
               PROVE  FALSE
    OBVIOUS
  <2>1. ~TimeoutRevert
    <3>1. ASSUME TimeoutRevert PROVE ~rep'.confirm
      BY <3>1 DEF TimeoutRevert, TypeOK, Detections
    <3>2. QED  BY <3>1
  <2>2. tick.phase = "act" /\ ~sel.hold
    BY <2>1, Commanders, ForwardBounds, CorrectBounds
  <2>3. QED  BY <2>2 DEF AimInv, AskedUnhandled
<1>2. QED  BY <1>1, TypeCorrect, AimInvariant, PTL DEF Spec, PendingQuiet

------------------------------------------------------------------------------
(* Which steps change the original target.                                 *)
LEMMA ForwardOriginal ==
    ASSUME TypeOK, HandleGotoForward, held'.original # held.original
    PROVE  /\ held'.original = tgt.at
           /\ held.original = None \/ fwd.awaiting \/ tgt.pending # "none"
<1>1. CASE ForwardBaseline
  BY <1>1, ConsumeKeeps DEF ForwardBaseline, HeldTargets
<1>2. CASE ForwardTarget
  <2>1. held'.original = tgt.at
    BY <1>2, ConsumeKeeps DEF ForwardTarget, HeldTargets
  <2>2. QED  BY <1>2, <2>1 DEF ForwardTarget, Wanted, Genuine
<1>3. CASE DeferTarget
  BY <1>3, ConsumeKeeps DEF DeferTarget
<1>4. HeldAfterHolding.original = held.original /\ HeldAfterHolding \in HeldTargets
  BY ConsumeKeeps DEF HeldAfterHolding, TypeOK
<1>5. CASE ForwardWatch
  BY <1>4, <1>5 DEF ForwardWatch
<1>6. CASE ForwardRecenter
  <2>1. held' = Recentered \/ held' = HeldAfterHolding
    BY <1>6 DEF ForwardRecenter
  <2>2. Recentered.original = held.original
    BY <1>4 DEF Recentered, HeldTargets
  <2>3. QED  BY <1>4, <2>1, <2>2
<1>7. ASSUME held' = held PROVE FALSE
  BY <1>7
<1>8. QED
  BY <1>1, <1>2, <1>3, <1>5, <1>6, <1>7
  DEF HandleGotoForward, ForwardNoTarget, ForwardSlewing, ForwardRejected, ForwardSettleWait,
      ForwardFreshWait, ForwardVerified, ForwardRetry, ForwardSettling

(* What is adopted was seen moving before the poll that adopts it.         *)
LEMMA AdoptedSeen ==
    ASSUME TypeOK, SettleTicks > 0, AdoptReposition
    PROVE  rep.ext
<1>1. (Polled.ext => rep.ext \/ MountJumped) /\ (MountJumped => Polled.settle = SettleTicks)
  BY DEF Polled, TypeOK, Detections
<1>2. Polled.ext /\ Polled.settle = 0
  BY DEF AdoptReposition
<1>3. QED  BY <1>1, <1>2

(* OriginalTargetNP is the user's: with a settle time at all, no           *)
(* correction, retry or recentering ever changes it.                       *)
THEOREM OriginalTargetFixedAlways ==
    ASSUME SettleTicks > 0
    PROVE  Spec => OriginalTargetFixed
<1>1. TypeOK /\ [Next]_vars =>
          [held'.original # held.original =>
              \/ held'.original = None
              \/ held.original = None
              \/ held'.original = tgt.at /\ (fwd.awaiting \/ tgt.pending # "none")
              \/ rep.ext \/ rep.confirm]_vars
  <2> SUFFICES ASSUME TypeOK, Next, held'.original # held.original,
                      held'.original # None, held.original # None, ~rep.ext, ~rep.confirm
               PROVE  held'.original = tgt.at /\ (fwd.awaiting \/ tgt.pending # "none")
    OBVIOUS
  <2>1. held' # held
    OBVIOUS
  <2>2. ~AbortMount /\ ~SomePushTo /\ ~World
    BY <2>1
    DEF AbortMount, Halt, SomePushTo, PushTo, World, Arrive, Solve, Expire, Publish, ExternalMove,
        Slip, Outside
  <2>3. ~Restart
    <3>1. Restart => held' = NothingHeld
      BY DEF Restart
    <3>2. QED  BY <3>1 DEF NothingHeld
  <2>4. ~Ask
    BY <2>1 DEF Ask, SetMode, SetAction, SetHold, ConfirmYes, ConfirmNo, Answering, Reconnect
  <2>5. ~TickStart /\ ~SkipDetection /\ ~JustWatch
    BY <2>1 DEF TickStart, BeginTick, SkipDetection, JustWatch
  <2>6. ~HandleReposition
    <3>1. ~TimeoutRevert /\ ~RepositionWatches
      BY <2>1 DEF TimeoutRevert, RepositionWatches
    <3>2. QED  BY <3>1, RepositionCases, AdoptedSeen
  <2>7. ~HandleAutoCorrect
    <3>1. [held EXCEPT !.correct = tick.pi].original = held.original
      BY DEF TypeOK, HeldTargets
    <3>2. QED  BY <3>1, CorrectBounds
  <2>8. QED
    BY <2>2, <2>3, <2>4, <2>5, <2>6, <2>7, ForwardOriginal DEF Next, Tick, RestOfTick, Instruct
<1>2. QED  BY <1>1, TypeCorrect, PTL DEF Spec, OriginalTargetFixed

------------------------------------------------------------------------------
(* A coordinate that is recorded, or that sendMountCoordsSafe() stops.     *)
Sendable(p) == p # None \/ None \in Below

AllSet(cmds) == \A i \in DOMAIN cmds : cmds[i].at # None

(* Where a NaN can be sent at all: with a location, a NaN altitude is      *)
(* refused; without one, only a No, and Auto-correct's retry after a       *)
(* timeout that found nothing held, would send one.                        *)
NaNGuarded == None \in Below \/ ("no" \notin Events /\ "AUTO" \notin Modes)

(* Goto-Forward is under way to a recorded target.                         *)
TargetKnown == fwd.state \in {"SLEWING", "SETTLING"} => held.forwarded # None

LEMMA SingleSet ==
    ASSUME NEW p, Sendable(p)
    PROVE  AllSet(<<>>) /\ AllSet(JustSync(p)) /\ AllSet(JustTrack(p))
<1>1. AllSet(<<>>)
  BY DEF AllSet
<1>2. ASSUME p # None PROVE AllSet(<<Sync(p)>>) /\ AllSet(<<Track(p)>>)
  BY <1>2 DEF AllSet, Sync, Track
<1>3. p # None \/ Refused(p)
  BY DEF Sendable, Refused
<1>4. QED  BY <1>1, <1>2, <1>3 DEF JustSync, JustTrack

LEMMA PairSet ==
    ASSUME NEW p, NEW q, Sendable(p), Sendable(q)
    PROVE  /\ AllSet(SyncThenTrack(p, q))
           /\ BothSent(SyncThenTrack(p, q)) => q # None
<1>1. ASSUME p # None, q # None PROVE AllSet(<<Sync(p), Track(q)>>)
  BY <1>1 DEF AllSet, Sync, Track
<1>2. ASSUME p # None PROVE AllSet(<<Sync(p)>>)
  BY <1>2 DEF AllSet, Sync
<1>3. AllSet(<<>>)
  BY DEF AllSet
<1>4. p # None \/ Refused(p)
  BY DEF Sendable, Refused
<1>5. q # None \/ Refused(q)
  BY DEF Sendable, Refused
<1>6. Len(<<>>) = 0 /\ Len(<<Sync(p)>>) = 1
  OBVIOUS
<1>7. BothSent(SyncThenTrack(p, q)) => q # None
  BY <1>5, <1>6 DEF BothSent, SyncThenTrack
<1>8. QED
  BY <1>1, <1>2, <1>3, <1>4, <1>5, <1>7 DEF SyncThenTrack

(* Positions of a solve, and of a tick that has positions, are recorded.   *)
LEMMA PositionsSet ==
    ASSUME TypeOK
    PROVE  cam.at # None /\ HeldPosition # None
BY PosAssumption DEF TypeOK, Solves, HeldPosition, MaybePos

LEMMA ForwardSets ==
    ASSUME TypeOK, TargetKnown, HandleGotoForward
    PROVE  TargetKnown' /\ AllSet(out')
<1>1. AllSet(<<>>)
  BY DEF AllSet
<1>2. CASE ForwardTarget \/ DeferTarget
  <2>1. tgt.at # None
    BY <1>2 DEF ForwardTarget, DeferTarget, Wanted, HasTarget
  <2>2. out' = ForwardCommands
    BY <1>2 DEF ForwardTarget, DeferTarget, Send
  <2>3. AllSet(SyncThenTrack(cam.at, tgt.at))
    BY <2>1, PositionsSet, PairSet DEF Sendable
  <2>4. AllSet(out')
    BY <1>1, <2>2, <2>3 DEF ForwardCommands
  <2>5. CASE ForwardTarget
    <3>1. held'.forwarded = tgt.at
      BY <2>5, ConsumeKeeps DEF ForwardTarget, HeldTargets
    <3>2. QED  BY <2>1, <2>4, <3>1 DEF TargetKnown
  <2>6. CASE DeferTarget
    <3>1. fwd'.state \notin {"SLEWING", "SETTLING"}
      BY <2>6 DEF DeferTarget, Forwarding, TypeOK, ForwardStates
    <3>2. QED  BY <2>4, <3>1 DEF TargetKnown
  <2>7. QED  BY <1>2, <2>5, <2>6
<1>3. CASE ForwardRetry
  <2>1. held' = held /\ held.forwarded # None
    BY <1>3 DEF ForwardRetry, ForwardSettling, Forwarding, TargetKnown
  <2>2. out' = SyncThenTrack(cam.at, held.forwarded)
    BY <1>3 DEF ForwardRetry, Send
  <2>3. AllSet(out')
    BY <2>1, <2>2, PositionsSet, PairSet DEF Sendable
  <2>4. QED  BY <2>1, <2>3 DEF TargetKnown
<1>4. HeldAfterHolding.forwarded = held.forwarded /\ HeldAfterHolding \in HeldTargets
  BY ConsumeKeeps DEF HeldAfterHolding, TypeOK
<1>5. CASE ForwardRecenter
  <2>1. out' = SyncThenTrack(cam.at, HeldPosition)
    BY <1>5 DEF ForwardRecenter, Send
  <2>2. AllSet(out')
    BY <2>1, PositionsSet, PairSet DEF Sendable
  <2>3. CASE BothSent(SyncThenTrack(cam.at, HeldPosition))
    <3>1. held'.forwarded = HeldPosition
      BY <1>4, <1>5, <2>3 DEF ForwardRecenter, Recentered, HeldTargets
    <3>2. QED  BY <2>2, <3>1, PositionsSet DEF TargetKnown
  <2>4. CASE ~BothSent(SyncThenTrack(cam.at, HeldPosition))
    <3>1. fwd'.state = "HOLDING"
      BY <1>5, <2>4 DEF ForwardRecenter, ForwardHolding, Forwarding
    <3>2. QED  BY <2>2, <3>1 DEF TargetKnown
  <2>5. QED  BY <2>3, <2>4
<1>6. CASE ForwardNoTarget \/ ForwardBaseline \/ ForwardWatch
  <2>1. fwd'.state \notin {"SLEWING", "SETTLING"}
    BY <1>6
    DEF ForwardNoTarget, ForwardBaseline, ForwardWatch, ForwardHolding, Forwarding, TypeOK,
        ForwardStates
  <2>2. out' = <<>>
    BY <1>6 DEF ForwardNoTarget, ForwardBaseline, ForwardWatch, SendNothing
  <2>3. QED  BY <1>1, <2>1, <2>2 DEF TargetKnown
<1>7. CASE ForwardSlewing \/ ForwardRejected \/ ForwardSettleWait \/ ForwardFreshWait \/ ForwardVerified
  <2>1. held' = held /\ out' = <<>> /\ fwd.state \in {"SLEWING", "SETTLING"}
    BY <1>7
    DEF ForwardSlewing, ForwardRejected, ForwardSettleWait, ForwardFreshWait, ForwardVerified,
        ForwardSettling, Forwarding, SendNothing
  <2>2. QED  BY <1>1, <2>1 DEF TargetKnown
<1>8. QED
  BY <1>2, <1>3, <1>5, <1>6, <1>7 DEF HandleGotoForward

LEMMA CorrectSets ==
    ASSUME TypeOK, NaNGuarded, TargetKnown, HandleAutoCorrect
    PROVE  TargetKnown' /\ AllSet(out')
<1>1. tick.pi # None /\ sel.mode = "AUTO"
  BY CorrectBounds
<1>2. None \in Below
  BY <1>1 DEF NaNGuarded, TypeOK, Settings
<1>3. /\ AllSet(<<>>) /\ AllSet(JustSync(tick.pi)) /\ AllSet(JustTrack(tick.pi))
      /\ AllSet(SyncThenTrack(tick.pi, held.correct))
  BY <1>2, SingleSet, PairSet DEF Sendable
<1>4. AllSet(out')
  BY <1>3
  DEF HandleAutoCorrect, CorrectBySync, CorrectMonitor, CorrectStart, CorrectSlewing,
      CorrectSettling, CorrectRejected, CorrectSettleWait, CorrectFreshWait, CorrectVerified,
      CorrectRetry, SyncCommands, GotoCommands, Send, SendNothing
<1>5. held'.forwarded = held.forwarded /\ fwd' = fwd
  BY CorrectBounds DEF TypeOK, HeldTargets
<1>6. QED  BY <1>4, <1>5 DEF TargetKnown

LEMMA RevertSets ==
    ASSUME TypeOK, TargetKnown, NEW p, NEW q, Sendable(p), Sendable(q), Revert(p, q),
           held'.forwarded = q, q = held.forwarded \/ q # None
    PROVE  TargetKnown' /\ AllSet(out')
<1>1. AllSet(out')
  BY PairSet DEF Revert, Send
<1>2. CASE BothSent(SyncThenTrack(p, q))
  BY <1>1, <1>2, PairSet DEF TargetKnown
<1>3. CASE ~BothSent(SyncThenTrack(p, q))
  BY <1>1, <1>3 DEF Revert, TargetKnown
<1>4. QED  BY <1>2, <1>3

LEMMA RepositionSets ==
    ASSUME TypeOK, TargetKnown, HandleReposition
    PROVE  TargetKnown' /\ AllSet(out')
<1>1. AllSet(<<>>)
  BY DEF AllSet
<1>2. CASE TimeoutRevert
  <2>1. tick.pi # None /\ RevertTarget # None
    BY <1>2 DEF TimeoutRevert, HavePositions, RevertTarget
  <2>2. held'.forwarded = RevertTarget
    BY <1>2 DEF TimeoutRevert, RevertTarget, Adopt
  <2>3. Revert(tick.pi, RevertTarget)
    BY <1>2 DEF TimeoutRevert
  <2>4. QED  BY <2>1, <2>2, <2>3, RevertSets DEF Sendable
<1>3. CASE AdoptReposition
  <2>1. fwd'.state = "HOLDING" /\ out' = <<>>
    BY <1>3, ResetTypes DEF AdoptReposition, Watching, SendNothing
  <2>2. QED  BY <1>1, <2>1 DEF TargetKnown
<1>4. CASE RepositionWatches
  BY <1>1, <1>4 DEF RepositionWatches, TargetKnown
<1>5. QED  BY <1>2, <1>3, <1>4, RepositionCases

LEMMA InstructSets ==
    ASSUME TypeOK, NaNGuarded, TargetKnown, Instruct
    PROVE  TargetKnown' /\ AllSet(out')
<1>1. AllSet(<<>>) /\ AllSet(JustSync(cam.at))
  BY PositionsSet, SingleSet DEF Sendable
<1>2. CASE Restart
  BY <1>1, <1>2 DEF Restart, IdleForward, TargetKnown
<1>3. ASSUME NEW mode \in Modes, SetMode(mode)
      PROVE  TargetKnown' /\ AllSet(out')
  BY <1>1, <1>3, ResetTypes DEF SetMode, Send, EntryCommands, TargetKnown
<1>4. ASSUME UNCHANGED <<fwd, held>>, out' = <<>>
      PROVE  TargetKnown' /\ AllSet(out')
  BY <1>1, <1>4 DEF TargetKnown
<1>5. ASSUME NEW action \in Actions, SetAction(action)
      PROVE  TargetKnown' /\ AllSet(out')
  BY <1>4, <1>5 DEF SetAction, SendNothing
<1>6. ASSUME NEW hold \in BOOLEAN, SetHold(hold)
      PROVE  TargetKnown' /\ AllSet(out')
  BY <1>4, <1>6 DEF SetHold, SendNothing
<1>7. CASE Reconnect
  BY <1>4, <1>7 DEF Reconnect
<1>8. CASE ConfirmYes
  <2>1. out' = <<>>
    BY <1>8 DEF ConfirmYes, SendNothing
  <2>2. fwd'.state = "HOLDING" \/ UNCHANGED <<fwd, held>>
    BY <1>8, ResetTypes DEF ConfirmYes
  <2>3. QED  BY <1>1, <2>1, <2>2 DEF TargetKnown
<1>9. CASE ConfirmNo
  <2>1. None \in Below
    BY <1>9 DEF ConfirmNo, Answering, Spend, NaNGuarded
  <2>2. CASE FreshPosition
    <3>1. Revert(cam.at, held.forwarded) /\ held' = held
      BY <1>9, <2>2 DEF ConfirmNo
    <3>2. QED  BY <2>1, <3>1, RevertSets DEF Sendable
  <2>3. CASE ~FreshPosition
    BY <1>4, <1>9, <2>3 DEF ConfirmNo, SendNothing
  <2>4. QED  BY <2>2, <2>3
<1>10. QED  BY <1>2, <1>3, <1>5, <1>6, <1>7, <1>8, <1>9 DEF Instruct, Ask

LEMMA StartSets ==
    ASSUME TypeOK, TypeOK', TickStart
    PROVE  AllSet(out')
<1>1. cam'.at # None
  BY PosAssumption DEF TypeOK, Solves
<1>2. ASSUME NEW p, p # None
      PROVE  AllSet(<<>>) /\ AllSet(JustSync(p))
  BY <1>2, SingleSet DEF Sendable
<1>3. QED  BY <1>1, <1>2 DEF TickStart, BeginTick, BootCommands

(* The mount is never sent a NaN where that could take it to RA0/Dec0.     *)
THEOREM GotoTargetSetAlways ==
    ASSUME NaNGuarded
    PROVE  Spec => []GotoTargetSet
<1>1. Init => TargetKnown /\ GotoTargetSet
  BY DEF Init, IdleForward, TargetKnown, GotoTargetSet
<1>2. TypeOK /\ TypeOK' /\ TargetKnown /\ GotoTargetSet /\ [Next]_vars =>
          TargetKnown' /\ GotoTargetSet'
  <2> SUFFICES ASSUME TypeOK, TypeOK', TargetKnown, GotoTargetSet, [Next]_vars
               PROVE  TargetKnown' /\ GotoTargetSet'
    OBVIOUS
  <2>1. AllSet(out') => GotoTargetSet'
    BY DEF AllSet, GotoTargetSet
  <2>2. AllSet(<<>>)
    BY DEF AllSet
  <2>3. CASE UNCHANGED vars
    BY <2>3 DEF vars, TargetKnown, GotoTargetSet
  <2>4. ASSUME UNCHANGED <<fwd, held>>, AllSet(out')
        PROVE  TargetKnown' /\ GotoTargetSet'
    BY <2>1, <2>4 DEF TargetKnown
  <2>5. CASE TickStart
    BY <2>4, <2>5, StartSets DEF TickStart, BeginTick
  <2>6. CASE SkipDetection \/ JustWatch
    BY <2>2, <2>4, <2>6 DEF SkipDetection, JustWatch
  <2>7. CASE AbortMount \/ SomePushTo \/ World
    <3>1. UNCHANGED <<fwd, held>> /\ out' = <<>>
      BY <2>7
      DEF AbortMount, Halt, SomePushTo, PushTo, World, Arrive, Solve, Expire, Publish, ExternalMove,
          Slip, Outside
    <3>2. QED  BY <2>2, <2>4, <3>1
  <2>8. CASE HandleReposition \/ HandleGotoForward \/ HandleAutoCorrect \/ Instruct
    BY <2>1, <2>8, RepositionSets, ForwardSets, CorrectSets, InstructSets
  <2>9. QED
    BY <2>3, <2>5, <2>6, <2>7, <2>8 DEF Next, Tick, RestOfTick
<1>3. QED  BY <1>1, <1>2, TypeCorrect, PTL DEF Spec

------------------------------------------------------------------------------
(* Detection follows one thing at a time, and a motion of others it can    *)
(* see ends the tick before the mode's handler, in the modes that watch.   *)
OneConcern == ~(rep.ext /\ rep.confirm)
ExternalUnhandled == tick.phase = "act" /\ rep.ext /\ DetectionApplies => tick.pi = None

WatchInv == OneConcern /\ ExternalUnhandled

(* What one call of reposition detection makes of what it watches.         *)
LEMMA RepositionConcerns ==
    ASSUME TypeOK, HandleReposition
    PROVE  /\ rep'.ext /\ rep'.confirm => rep.ext /\ rep.confirm
           /\ tick'.phase = "act" /\ rep'.ext => tick'.pi = None
<1>1. Polled \in Detections /\ Polled.confirm = rep.confirm
  BY PolledType DEF Polled, TypeOK, Detections
<1>2. rep \in Detections /\ tick \in Ticks /\ NoTick.phase = "idle"
  BY DEF TypeOK, NoTick
<1>3. CASE PendingWait
  BY <1>2, <1>3 DEF PendingWait, Detecting, Handled, SendNothing
<1>4. CASE TimeoutBlind
  BY <1>2, <1>4 DEF TimeoutBlind, Detecting, Handled, SendNothing, Detections
<1>5. CASE TimeoutRevert
  <2>1. ~rep'.confirm
    BY <1>2, <1>5 DEF TimeoutRevert, Detections
  <2>2. QED  BY <1>2, <1>5, <2>1 DEF TimeoutRevert, Handled
<1>6. CASE NoPositions
  BY <1>2, <1>6 DEF NoPositions, Detecting, SendNothing, PassOn, HavePositions, Ticks
<1>7. CASE ExternalSettling \/ ExternalAwaitSolve
  <2>1. rep'.confirm = rep.confirm
    BY <1>1, <1>7 DEF ExternalSettling, ExternalAwaitSolve, Detections
  <2>2. Watching /\ tick' = NoTick
    BY <1>7 DEF ExternalSettling, ExternalAwaitSolve, Handled
  <2>3. QED  BY <1>2, <2>1, <2>2 DEF Watching
<1>8. CASE AdoptReposition
  <2>1. ~rep'.ext
    BY <1>1, <1>8 DEF AdoptReposition, Detections
  <2>2. QED  BY <2>1
<1>9. CASE OwnMotionOrStale \/ ConfirmedGood \/ NotSuspicious \/ AskOperator
  <2>1. ~Polled.ext
    BY <1>9 DEF OwnMotionOrStale, ConfirmedGood, NotSuspicious, AskOperator, Classifying
  <2>2. rep'.ext = Polled.ext
    BY <1>1, <1>9 DEF OwnMotionOrStale, ConfirmedGood, NotSuspicious, AskOperator, Detections
  <2>3. QED  BY <2>1, <2>2
<1>10. QED
  BY <1>3, <1>4, <1>5, <1>6, <1>7, <1>8, <1>9 DEF HandleReposition

(* Goto-Forward sends nothing without a fresh position, and neither        *)
(* handler changes what is watched.                                        *)
LEMMA HandlersWatch ==
    ASSUME TypeOK, HandleGotoForward \/ HandleAutoCorrect
    PROVE  /\ rep'.ext = rep.ext /\ rep'.confirm = rep.confirm
           /\ HandleGotoForward /\ ~FreshPosition => out' = <<>>
<1>1. CASE HandleAutoCorrect
  BY <1>1, CorrectBounds, ForwardBounds
<1>2. CASE HandleGotoForward
  <2>1. rep'.ext = rep.ext /\ rep'.confirm = rep.confirm
    <3>1. /\ [rep EXCEPT !.polled = cam.at, !.polledAge = 0].ext = rep.ext
          /\ [rep EXCEPT !.polled = cam.at, !.polledAge = 0].confirm = rep.confirm
      BY DEF TypeOK, Detections
    <3>2. QED
      BY <1>2, <3>1
      DEF HandleGotoForward, ForwardNoTarget, ForwardBaseline, ForwardTarget, DeferTarget,
          ForwardSlewing, ForwardSettling, ForwardRejected, ForwardSettleWait, ForwardFreshWait,
          ForwardVerified, ForwardRetry, ForwardWatch, ForwardRecenter
  <2>2. ASSUME ~FreshPosition
        PROVE  out' = <<>>
    <3>1. ForwardCommands = <<>> /\ ~BothSent(ForwardCommands)
      BY <2>2 DEF ForwardCommands, BothSent
    <3>2. ~ForwardTarget /\ ~ForwardRetry /\ ~ForwardRecenter
      BY <2>2, <3>1 DEF ForwardTarget, ForwardRetry, CanVerify, ForwardRecenter, MustRecenter
    <3>3. DeferTarget => out' = <<>>
      BY <3>1 DEF DeferTarget, Send
    <3>4. QED
      BY <1>2, <3>2, <3>3
      DEF HandleGotoForward, ForwardNoTarget, ForwardBaseline, ForwardSlewing,
          ForwardRejected, ForwardSettleWait, ForwardFreshWait, ForwardVerified, ForwardWatch,
          SendNothing
  <2>3. QED  BY <2>1, <2>2
<1>3. QED  BY <1>1, <1>2

LEMMA TickWatches ==
    ASSUME TypeOK, WatchInv, Tick
    PROVE  WatchInv'
<1>1. CASE TickStart
  <2>1. rep'.ext = rep.ext /\ rep'.confirm = rep.confirm
    BY <1>1 DEF TickStart, BeginTick, TypeOK, Detections
  <2>2. tick'.phase = "detect"
    BY <1>1 DEF TickStart, Positions, NoTick
  <2>3. QED  BY <2>1, <2>2 DEF WatchInv, OneConcern, ExternalUnhandled
<1>2. CASE SkipDetection \/ JustWatch
  <2>1. UNCHANGED <<sel, rep>> /\ (tick'.phase = "idle" \/ ~DetectionApplies)
    BY <1>2 DEF SkipDetection, JustWatch, NoTick
  <2>2. QED  BY <2>1 DEF WatchInv, OneConcern, ExternalUnhandled, DetectionApplies
<1>3. CASE HandleReposition
  BY <1>3, RepositionConcerns DEF WatchInv, OneConcern, ExternalUnhandled
<1>4. CASE HandleGotoForward \/ HandleAutoCorrect
  BY <1>4, ForwardBounds, CorrectBounds, HandlersWatch DEF WatchInv, OneConcern, ExternalUnhandled
<1>5. QED  BY <1>1, <1>2, <1>3, <1>4 DEF Tick, RestOfTick

LEMMA RequestsWatch ==
    ASSUME TypeOK, WatchInv, Instruct \/ AbortMount \/ SomePushTo \/ World
    PROVE  WatchInv'
<1>1. ASSUME tick'.phase = "idle", rep'.ext => rep.ext, rep'.confirm => rep.confirm
      PROVE  WatchInv'
  BY <1>1 DEF WatchInv, OneConcern, ExternalUnhandled
<1>2. ASSUME UNCHANGED rep, BetweenTicks
      PROVE  WatchInv'
  BY <1>1, <1>2 DEF BetweenTicks
<1>3. ASSUME NEW mode \in Modes, SetMode(mode)
      PROVE  WatchInv'
  <2>1. ~rep'.ext /\ ~rep'.confirm
    BY <1>3 DEF SetMode, RepositionReset, TypeOK, Detections
  <2>2. QED  BY <1>1, <1>3, <2>1 DEF SetMode, BetweenTicks
<1>4. ASSUME NEW action \in Actions, SetAction(action)
      PROVE  WatchInv'
  BY <1>2, <1>4 DEF SetAction
<1>5. ASSUME NEW hold \in BOOLEAN, SetHold(hold)
      PROVE  WatchInv'
  BY <1>2, <1>5 DEF SetHold
<1>6. CASE Reconnect
  BY <1>2, <1>6 DEF Reconnect
<1>7. CASE ConfirmYes \/ ConfirmNo
  <2>1. rep'.ext = rep.ext /\ ~rep'.confirm
    BY <1>7 DEF ConfirmYes, ConfirmNo, TypeOK, Detections
  <2>2. QED  BY <1>1, <1>7, <2>1 DEF ConfirmYes, ConfirmNo, Answering, BetweenTicks
<1>8. CASE Restart
  <2>1. ~rep'.ext /\ ~rep'.confirm /\ tick'.phase = "idle"
    BY <1>8 DEF Restart, NoReposition, NoTick
  <2>2. QED  BY <1>1, <2>1
<1>9. CASE AbortMount \/ SomePushTo \/ World
  <2>1. UNCHANGED <<tick, sel, rep>>
    BY <1>9
    DEF AbortMount, Halt, SomePushTo, PushTo, World, Arrive, Solve, Expire, Publish,
        ExternalMove, Slip, Outside, BetweenTicks
  <2>2. QED  BY <2>1 DEF WatchInv, OneConcern, ExternalUnhandled, DetectionApplies
<1>10. QED
  BY <1>3, <1>4, <1>5, <1>6, <1>7, <1>8, <1>9 DEF Instruct, Ask

LEMMA WatchInvariant == Spec => []WatchInv
<1>1. Init => WatchInv
  BY DEF Init, NoReposition, NoTick, WatchInv, OneConcern, ExternalUnhandled
<1>2. ASSUME TypeOK, WatchInv, [Next]_vars
      PROVE  WatchInv'
  <2>1. CASE UNCHANGED vars
    BY <1>2, <2>1 DEF vars, WatchInv, OneConcern, ExternalUnhandled, DetectionApplies
  <2>2. CASE Next
    BY <1>2, <2>2, TickWatches, RequestsWatch DEF Next
  <2>3. QED  BY <1>2, <2>1, <2>2
<1>3. QED  BY <1>1, <1>2, TypeCorrect, PTL DEF Spec

(* While others drive the mount, no tick commands it, in whatever order    *)
(* solves, requests and restarts come, but for the one race the property   *)
(* names: the position was not there when the tick looked for motion.      *)
THEOREM ExternalWinsAlways == Spec => ExternalWins
<1>1. ASSUME TypeOK, WatchInv, Next, rep.ext, rep'.ext, ses.didInit, DetectionApplies \/ sel.hold,
             TickStep, out' # <<>>
      PROVE  SolvedMeanwhile
  <2>1. ~TimeoutRevert
    BY <1>1 DEF TimeoutRevert, WatchInv, OneConcern
  <2>2. HandleGotoForward \/ HandleAutoCorrect
    BY <1>1, <2>1, Commanders
  <2>3. tick.phase = "act" /\ tick.pi = None
    BY <1>1, <2>2, ForwardBounds, CorrectBounds DEF WatchInv, ExternalUnhandled
  <2>4. HandleGotoForward
    BY <1>1, <2>2, <2>3, CorrectBounds
  <2>5. FreshPosition
    BY <1>1, <2>4, HandlersWatch
  <2>6. QED  BY <2>3, <2>5 DEF SolvedMeanwhile
<1>2. ASSUME TypeOK, WatchInv, [Next]_vars
      PROVE  [rep.ext /\ rep'.ext /\ ses.didInit /\ (DetectionApplies \/ sel.hold) /\ TickStep
                 => out' = <<>> \/ SolvedMeanwhile]_vars
  BY <1>1, <1>2
<1>3. QED  BY <1>2, WatchInvariant, TypeCorrect, PTL DEF Spec, ExternalWins
================================================================================
