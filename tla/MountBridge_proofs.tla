---------------------------- MODULE MountBridge_proofs ----------------------------
(***************************************************************************)
(* Proofs about the Mount Bridge, for every sky, every limit and every set *)
(* of settings, operator commands and disturbances.                        *)
(***************************************************************************)
EXTENDS BridgeProperties, SequenceTheorems, TLAPS

------------------------------------------------------------------------------
(* The limits are natural numbers, those that are waited for positive.     *)
LEMMA Limits ==
    /\ MaxSync \in Nat /\ MaxAge \in Nat /\ SettleTicks \in Nat /\ Retries \in Nat
    /\ OwnWindow \in Nat /\ Budget \in Nat /\ WireCap \in Nat
    /\ FreshWait \in Nat /\ FreshWait > 0 /\ ConfirmTicks \in Nat /\ ConfirmTicks > 0
    /\ PassiveTicks \in Nat /\ PassiveTicks > 0 /\ Forever \in Nat /\ Forever > 0
BY LimitAssumption

------------------------------------------------------------------------------
(* What the shared operators of BridgeState yield.                         *)

(* Every list of commands a handler builds is one the mount can be sent.   *)
LEMMA CommandListTypes ==
    ASSUME NEW p \in MaybePos, NEW q \in MaybePos
    PROVE  /\ <<>> \in CommandLists
           /\ JustSync(p) \in CommandLists
           /\ JustTrack(p) \in CommandLists
           /\ SyncThenTrack(p, q) \in CommandLists
<1>1. Sync(p) \in Commands /\ Track(p) \in Commands /\ Track(q) \in Commands
  BY DEF Sync, Track, Commands
<1>2. /\ <<>> \in CommandLists
      /\ \A a \in Commands : <<a>> \in CommandLists
      /\ \A a, b \in Commands : <<a, b>> \in CommandLists
  BY DEF CommandLists
<1>3. QED  BY <1>1, <1>2 DEF JustSync, JustTrack, SyncThenTrack

(* The mount's mirror stays a mirror whatever it is sent.                  *)
LEMMA ObeyAllType ==
    ASSUME NEW m \in MountStates, NEW cmds \in CommandLists
    PROVE  ObeyAll(m, cmds) \in MountStates
<1>1. \A x \in MountStates, c \in Commands : Obey(x, c) \in MountStates
  BY PosAssumption DEF Obey, Coerced, Commands, MountStates, MaybePos
<1>2. cmds \in Seq(Commands) /\ Len(cmds) <= 2
  BY DEF CommandLists
<1>3. Len(cmds) \in Nat /\ \A i \in 1..Len(cmds) : cmds[i] \in Commands
  BY <1>2, LenProperties, ElementOfSeq
<1>4. CASE Len(cmds) = 0
  BY <1>4 DEF ObeyAll
<1>5. CASE Len(cmds) = 1
  BY <1>1, <1>3, <1>5 DEF ObeyAll
<1>6. CASE Len(cmds) = 2
  BY <1>1, <1>3, <1>6 DEF ObeyAll
<1>7. \A n \in Nat : n <= 2 => n = 0 \/ n = 1 \/ n = 2
  OBVIOUS
<1>8. QED  BY <1>2, <1>3, <1>4, <1>5, <1>6, <1>7, Zenon

(* Sending a list of commands, and sending none.                           *)
LEMMA SendType ==
    ASSUME TypeOK, NEW cmds \in CommandLists, Send(cmds)
    PROVE  sky' \in MountStates /\ ses' \in SessionStates /\ out' \in CommandLists
<1>1. sky' \in MountStates
  BY ObeyAllType DEF TypeOK, Send
<1>2. ses' \in SessionStates
  <2>1. 0 \in 0..OwnWindow
    BY Limits
  <2>2. QED  BY <2>1 DEF TypeOK, Send, SessionStates
<1>3. QED  BY <1>1, <1>2 DEF Send

LEMMA SendNothingType ==
    ASSUME TypeOK, SendNothing
    PROVE  sky' \in MountStates /\ ses' \in SessionStates /\ out' \in CommandLists
BY DEF TypeOK, SendNothing, CommandLists

(* A push-to puts publications on the wire.                                *)
LEMMA RequestType ==
    ASSUME TypeOK, NEW p \in Pos, NEW by \in Sources, Request(p, by)
    PROVE  tgt' \in TargetStates
<1>1. PICK n \in Copies : tgt' = [tgt EXCEPT !.wire = @ \o [i \in 1..n |-> Publication(p, by)]]
  BY DEF Request
<1>2. [i \in 1..n |-> Publication(p, by)] \in Seq(Publications)
  <2>1. n \in Nat /\ Publication(p, by) \in Publications
    BY SetAssumption DEF Publication, Publications
  <2>2. QED  BY <2>1
<1>3. QED  BY <1>1, <1>2, ConcatProperties DEF TypeOK, TargetStates

------------------------------------------------------------------------------
(* Type correctness.  The freshness waits count down to the tick on which  *)
(* SETTLING is left, so they are positive while it lasts.                  *)
WaitsLeft ==
    /\ fwd.state = "SETTLING" => fwd.wait > 0
    /\ cor.state = "SETTLING" => cor.wait > 0

Commanded == sky' \in MountStates /\ ses' \in SessionStates /\ out' \in CommandLists



(* Consuming the push-to event.                                            *)
LEMMA EventType ==
    ASSUME TypeOK
    PROVE  Consumed \in TargetStates /\ HeldAfterConsume \in HeldTargets
<1>1. Consumed \in TargetStates
  BY DEF TypeOK, TargetStates, Consumed, Sources
<1>2. [held EXCEPT !.notified = None] \in HeldTargets
  BY DEF TypeOK, HeldTargets, MaybePos
<1>3. QED  BY <1>1, <1>2 DEF TypeOK, HeldAfterConsume
(* Each state machine's moves.                                             *)
LEMMA SlewingType ==
    ASSUME TypeOK
    PROVE  /\ Slewing(fwd) \in ForwardStates /\ Slewing(fwd).state = "SLEWING"
           /\ Slewing(cor) \in CorrectStates /\ Slewing(cor).state = "SLEWING"
<1>1. Retries \in 0..Retries
  BY Limits
<1>2. Slewing(fwd) \in ForwardStates /\ Slewing(fwd).state = "SLEWING"
  BY <1>1 DEF TypeOK, Slewing, ForwardStates
<1>3. Slewing(cor) \in CorrectStates /\ Slewing(cor).state = "SLEWING"
  BY <1>1 DEF TypeOK, Slewing, CorrectStates
<1>4. QED  BY <1>2, <1>3

LEMMA SettlingType ==
    ASSUME TypeOK
    PROVE  /\ Settling(fwd) \in ForwardStates /\ Settling(fwd).settle = SettleTicks
           /\ Settling(cor) \in CorrectStates /\ Settling(cor).settle = SettleTicks
           /\ Settling(fwd).wait > 0 /\ Settling(cor).wait > 0
<1>1. SettleTicks \in 0..SettleTicks /\ FreshWait \in 0..FreshWait /\ FreshWait > 0
  BY Limits
<1>2. /\ Settling(fwd) \in ForwardStates
      /\ Settling(fwd).settle = SettleTicks /\ Settling(fwd).wait > 0
  BY <1>1 DEF TypeOK, Settling, ForwardStates
<1>3. /\ Settling(cor) \in CorrectStates
      /\ Settling(cor).settle = SettleTicks /\ Settling(cor).wait > 0
  BY <1>1 DEF TypeOK, Settling, CorrectStates
<1>4. QED  BY <1>2, <1>3

(* What the handler leaves of the mount, the session and the command log.  *)
LEMMA ForwardCommanded ==
    ASSUME TypeOK, HandleGotoForward
    PROVE  Commanded
<1>1. cam.at \in MaybePos /\ tgt.at \in MaybePos /\ held.forwarded \in MaybePos
      /\ HeldPosition \in MaybePos
  BY DEF TypeOK, Solves, TargetStates, HeldTargets, HeldPosition, MaybePos
<1>2. /\ <<>> \in CommandLists
      /\ ForwardCommands \in CommandLists
      /\ SyncThenTrack(cam.at, held.forwarded) \in CommandLists
      /\ SyncThenTrack(cam.at, HeldPosition) \in CommandLists
  BY <1>1, CommandListTypes DEF ForwardCommands
<1>3. [sky EXCEPT !.rejected = FALSE] \in MountStates
  BY DEF TypeOK, MountStates
<1>4. CASE SendNothing
  BY <1>4, SendNothingType DEF Commanded
<1>5. CASE ForwardTarget \/ DeferTarget
  BY <1>2, <1>5, SendType DEF ForwardTarget, DeferTarget, Commanded
<1>6. CASE ForwardRejected \/ ForwardWatch
  BY <1>2, <1>3, <1>6 DEF ForwardRejected, ForwardWatch, TypeOK, Commanded
<1>7. CASE ForwardRetry
  BY <1>2, <1>7, SendType DEF ForwardRetry, Commanded
<1>8. CASE ForwardRecenter
  BY <1>2, <1>8, SendType DEF ForwardRecenter, Commanded
<1>9. QED
  BY <1>4, <1>5, <1>6, <1>7, <1>8
  DEF HandleGotoForward, ForwardNoTarget, ForwardBaseline, ForwardSlewing, ForwardSettleWait,
      ForwardFreshWait, ForwardVerified

LEMMA ForwardType ==
    ASSUME TypeOK, WaitsLeft, HandleGotoForward
    PROVE  TypeOK' /\ WaitsLeft'
<1> USE DEF Forwarding
<1>1. Commanded
  BY ForwardCommanded
<1>2. tick' \in Ticks /\ UNCHANGED <<cam, sel, cor, budget>>
  <2>1. NoTick \in Ticks
    BY DEF NoTick, Ticks, MaybePos
  <2>2. QED
    BY <2>1 DEF HandleGotoForward, ForwardNoTarget, ForwardBaseline, ForwardTarget, DeferTarget,
       ForwardSlewing, ForwardSettling, ForwardRejected, ForwardSettleWait, ForwardFreshWait,
       ForwardVerified, ForwardRetry, ForwardHolding, ForwardWatch, ForwardRecenter
<1>3. tgt' \in TargetStates
  BY EventType DEF HandleGotoForward, ForwardNoTarget, ForwardBaseline, ForwardTarget, DeferTarget,
     ForwardSlewing, ForwardSettling, ForwardRejected, ForwardSettleWait, ForwardFreshWait,
     ForwardVerified, ForwardRetry, ForwardHolding, ForwardWatch, ForwardRecenter, TypeOK
<1>4. rep' \in Detections
  <2>1. [rep EXCEPT !.polled = cam.at, !.polledAge = 0] \in Detections
    <3>1. 0 \in 0..Forever /\ cam.at \in MaybePos
      BY Limits DEF TypeOK, Solves, MaybePos
    <3>2. QED  BY <3>1 DEF TypeOK, Detections
  <2>2. QED
    BY <2>1 DEF HandleGotoForward, ForwardNoTarget, ForwardBaseline, ForwardTarget, DeferTarget,
       ForwardSlewing, ForwardSettling, ForwardRejected, ForwardSettleWait, ForwardFreshWait,
       ForwardVerified, ForwardRetry, ForwardWatch, ForwardRecenter, TypeOK
<1>5. held' \in HeldTargets
  <2>1. \A h \in HeldTargets, p, q \in MaybePos :
            /\ [h EXCEPT !.forwarded = p] \in HeldTargets
            /\ [h EXCEPT !.forwarded = p, !.original = q] \in HeldTargets
    BY DEF HeldTargets
  <2>2. /\ HeldAfterConsume \in HeldTargets /\ HeldAfterHolding \in HeldTargets
        /\ HeldAfterConsume.original \in MaybePos
        /\ tgt.at \in MaybePos /\ HeldPosition \in MaybePos
    <3>1. HeldAfterConsume \in HeldTargets /\ HeldAfterHolding \in HeldTargets
      BY EventType DEF HeldAfterHolding, TypeOK
    <3>2. HeldAfterConsume.original \in MaybePos
      BY <3>1 DEF HeldTargets
    <3>3. tgt.at \in MaybePos /\ HeldPosition \in MaybePos
      BY DEF TypeOK, Solves, TargetStates, HeldTargets, HeldPosition, MaybePos
    <3>4. QED  BY <3>1, <3>2, <3>3
  <2>3. CASE ForwardBaseline
    <3> DEFINE kept == IF HeldAfterConsume.original = None THEN tgt.at ELSE HeldAfterConsume.original
    <3>1. held' = [HeldAfterConsume EXCEPT !.forwarded = tgt.at, !.original = kept]
      BY <2>3 DEF ForwardBaseline
    <3>2. kept \in MaybePos
      BY <2>2
    <3> HIDE DEF kept
    <3>3. QED  BY <2>1, <2>2, <3>1, <3>2
  <2>4. CASE ForwardTarget
    BY <2>1, <2>2, <2>4 DEF ForwardTarget
  <2>5. CASE DeferTarget
    BY <2>2, <2>5 DEF DeferTarget
  <2>6. CASE ForwardWatch \/ ForwardRecenter
    BY <2>1, <2>2, <2>6 DEF ForwardWatch, ForwardRecenter, Recentered
  <2>7. CASE UNCHANGED held
    BY <2>7 DEF TypeOK
  <2>8. QED
    BY <2>3, <2>4, <2>5, <2>6, <2>7
    DEF HandleGotoForward, ForwardNoTarget, ForwardSlewing, ForwardSettling, ForwardRejected,
        ForwardSettleWait, ForwardFreshWait, ForwardVerified, ForwardRetry
<1>6. fwd' \in ForwardStates /\ (fwd'.state = "SETTLING" => fwd'.wait > 0)
  <2>1. CASE ForwardNoTarget \/ ForwardBaseline \/ DeferTarget
    BY <2>1 DEF ForwardNoTarget, ForwardBaseline, DeferTarget, TypeOK, ForwardStates
  <2>2. CASE ForwardTarget
    BY <2>2, SlewingType DEF ForwardTarget, ForwardStates
  <2>3. CASE ForwardSlewing
    <3>1. fwd' = fwd \/ fwd' = Settling(fwd)
      BY <2>3 DEF ForwardSlewing
    <3>2. QED  BY <3>1, SettlingType DEF TypeOK, WaitsLeft
  <2>4. CASE ForwardSettleWait
    BY <2>4, Limits DEF ForwardSettleWait, TypeOK, ForwardStates, WaitsLeft
  <2>5. CASE ForwardFreshWait
    <3>1. fwd.wait \in 1..FreshWait /\ fwd.state = "SETTLING"
      BY <2>5, Limits
      DEF ForwardFreshWait, ForwardSettling, Forwarding, TypeOK, ForwardStates, WaitsLeft
    <3>2. PICK s \in {"SETTLING", "HOLDING"} :
              /\ fwd' = [fwd EXCEPT !.wait = @ - 1, !.state = s]
              /\ s = "SETTLING" => fwd.wait > 1
      BY <2>5 DEF ForwardFreshWait
    <3>3. fwd.wait - 1 \in 0..FreshWait /\ (fwd.wait > 1 => fwd.wait - 1 > 0)
      BY <3>1, Limits
    <3>4. fwd' \in ForwardStates /\ fwd'.state = s /\ fwd'.wait = fwd.wait - 1
      BY <3>2, <3>3 DEF TypeOK, ForwardStates
    <3>5. QED  BY <3>2, <3>3, <3>4
  <2>6. CASE ForwardRejected \/ ForwardVerified
    <3>1. fwd' = [fwd EXCEPT !.state = "HOLDING"]
      BY <2>6 DEF ForwardRejected, ForwardVerified
    <3>2. QED  BY <3>1 DEF TypeOK, ForwardStates
  <2>7. CASE ForwardRetry
    <3>1. PICK s \in {"SLEWING", "IDLE"} : fwd' = [fwd EXCEPT !.retries = @ - 1, !.state = s]
      BY <2>7 DEF ForwardRetry
    <3>2. fwd.retries - 1 \in 0..Retries
      BY <2>7, Limits DEF ForwardRetry, TypeOK, ForwardStates
    <3>3. QED  BY <3>1, <3>2 DEF TypeOK, ForwardStates
  <2>8. CASE ForwardWatch
    <3>1. UNCHANGED fwd
      BY <2>8 DEF ForwardWatch
    <3>2. QED  BY <3>1 DEF TypeOK, WaitsLeft
  <2>9. CASE ForwardRecenter
    BY <2>9, SlewingType DEF ForwardRecenter, ForwardHolding, TypeOK
  <2>10. QED
    BY <2>1, <2>2, <2>3, <2>4, <2>5, <2>6, <2>7, <2>8, <2>9 DEF HandleGotoForward
<1>7. QED
  BY <1>1, <1>2, <1>3, <1>4, <1>5, <1>6 DEF Commanded, TypeOK, WaitsLeft

------------------------------------------------------------------------------
LEMMA CorrectType ==
    ASSUME TypeOK, WaitsLeft, HandleAutoCorrect
    PROVE  TypeOK' /\ WaitsLeft'
<1>1. Commanded
  <2>1. tick.pi \in MaybePos /\ held.correct \in MaybePos
    BY DEF TypeOK, Ticks, HeldTargets
  <2>2. /\ <<>> \in CommandLists
        /\ SyncCommands \in CommandLists /\ GotoCommands \in CommandLists
        /\ SyncThenTrack(tick.pi, held.correct) \in CommandLists
    BY <2>1, CommandListTypes DEF SyncCommands, GotoCommands
  <2>3. [sky EXCEPT !.rejected = FALSE] \in MountStates
    BY DEF TypeOK, MountStates
  <2>4. CASE SendNothing
    BY <2>4, SendNothingType DEF Commanded
  <2>5. CASE CorrectBySync
    BY <2>2, <2>5, SendType DEF CorrectBySync, Commanded
  <2>6. CASE CorrectStart
    BY <2>2, <2>6, SendType DEF CorrectStart, Commanded
  <2>7. CASE CorrectRejected
    BY <2>2, <2>3, <2>7 DEF CorrectRejected, TypeOK, Commanded
  <2>8. CASE CorrectRetry
    BY <2>2, <2>8, SendType DEF CorrectRetry, Commanded
  <2>9. QED
    BY <2>4, <2>5, <2>6, <2>7, <2>8
    DEF HandleAutoCorrect, CorrectMonitor, CorrectSlewing, CorrectSettleWait, CorrectFreshWait,
        CorrectVerified
<1>2. tick' \in Ticks /\ UNCHANGED <<cam, tgt, sel, fwd, rep, budget>>
  <2>1. NoTick \in Ticks
    BY DEF NoTick, Ticks, MaybePos
  <2>2. QED
    BY <2>1
    DEF HandleAutoCorrect, CorrectBySync, CorrectMonitor, CorrectStart, CorrectSlewing,
        CorrectSettling, CorrectRejected, CorrectSettleWait, CorrectFreshWait, CorrectVerified,
        CorrectRetry, Correcting
<1>3. held' \in HeldTargets
  <2>1. [held EXCEPT !.correct = tick.pi] \in HeldTargets
    BY DEF TypeOK, HeldTargets, Ticks
  <2>2. QED
    BY <2>1
    DEF HandleAutoCorrect, CorrectBySync, CorrectMonitor, CorrectStart, CorrectSlewing,
        CorrectSettling, CorrectRejected, CorrectSettleWait, CorrectFreshWait, CorrectVerified,
        CorrectRetry, TypeOK
<1>4. cor' \in CorrectStates /\ (cor'.state = "SETTLING" => cor'.wait > 0)
  <2>1. CASE UNCHANGED cor
    BY <2>1 DEF TypeOK, WaitsLeft
  <2>2. CASE CorrectStart
    <3>1. cor' = Slewing(cor)
      BY <2>2 DEF CorrectStart
    <3>2. QED  BY <3>1, SlewingType
  <2>3. CASE CorrectSlewing
    <3>1. cor' = cor \/ cor' = Settling(cor)
      BY <2>3 DEF CorrectSlewing
    <3>2. QED  BY <3>1, SettlingType DEF TypeOK, WaitsLeft
  <2>4. CASE CorrectSettleWait
    BY <2>4, Limits DEF CorrectSettleWait, TypeOK, CorrectStates, WaitsLeft
  <2>5. CASE CorrectFreshWait
    <3>1. cor.wait \in 1..FreshWait
      BY <2>5, Limits DEF CorrectFreshWait, CorrectSettling, TypeOK, CorrectStates, WaitsLeft
    <3>2. PICK s \in {"SETTLING", "IDLE"} :
              /\ cor' = [cor EXCEPT !.wait = @ - 1, !.state = s]
              /\ s = "SETTLING" => cor.wait > 1
      BY <2>5 DEF CorrectFreshWait
    <3>3. cor.wait - 1 \in 0..FreshWait /\ (cor.wait > 1 => cor.wait - 1 > 0)
      BY <3>1, Limits
    <3>4. cor' \in CorrectStates /\ cor'.state = s /\ cor'.wait = cor.wait - 1
      BY <3>2, <3>3 DEF TypeOK, CorrectStates
    <3>5. QED  BY <3>2, <3>3, <3>4
  <2>6. CASE CorrectRejected \/ CorrectVerified
    <3>1. cor' = Reset(cor)
      BY <2>6 DEF CorrectRejected, CorrectVerified
    <3>2. QED  BY <3>1 DEF Reset, TypeOK, CorrectStates
  <2>7. CASE CorrectRetry
    <3>1. PICK s \in {"SLEWING", "IDLE"} : cor' = [cor EXCEPT !.retries = @ - 1, !.state = s]
      BY <2>7 DEF CorrectRetry
    <3>2. cor.retries - 1 \in 0..Retries
      BY <2>7, Limits DEF CorrectRetry, TypeOK, CorrectStates
    <3>3. QED  BY <3>1, <3>2 DEF TypeOK, CorrectStates
  <2>8. QED
    BY <2>1, <2>2, <2>3, <2>4, <2>5, <2>6, <2>7 DEF HandleAutoCorrect, CorrectBySync, CorrectMonitor
<1>5. QED
  BY <1>1, <1>2, <1>3, <1>4 DEF Commanded, TypeOK, WaitsLeft

------------------------------------------------------------------------------
(* The operator's or the timeout's revert, shared by both.                 *)
LEMMA RevertType ==
    ASSUME TypeOK, WaitsLeft, NEW p \in MaybePos, NEW q \in MaybePos, Revert(p, q)
    PROVE  /\ Commanded
           /\ fwd' \in ForwardStates /\ cor' \in CorrectStates
           /\ fwd' = fwd \/ (fwd'.state = "SLEWING" /\ sel.mode = "GOTO")
           /\ cor' = cor \/ (cor'.state = "SLEWING" /\ sel.mode # "GOTO")
<1>1. Commanded
  BY CommandListTypes, SendType DEF Revert, Commanded
<1>2. fwd' \in ForwardStates /\ (fwd' = fwd \/ (fwd'.state = "SLEWING" /\ sel.mode = "GOTO"))
  BY SlewingType DEF Revert, TypeOK
<1>3. cor' \in CorrectStates /\ (cor' = cor \/ (cor'.state = "SLEWING" /\ sel.mode # "GOTO"))
  BY SlewingType DEF Revert, TypeOK
<1>4. QED  BY <1>1, <1>2, <1>3

(* Whatever the poll notices, detection keeps its record's shape.          *)
LEMMA PolledType ==
    ASSUME TypeOK
    PROVE  Polled \in Detections
<1>1. 0 \in 0..Forever /\ SettleTicks \in 0..SettleTicks
  BY Limits
<1>2. MountJumped \in BOOLEAN /\ tick.mount \in MaybePos
  BY DEF MountJumped, TypeOK, Ticks
<1>3. QED  BY <1>1, <1>2 DEF Polled, TypeOK, Detections

LEMMA AdoptType ==
    ASSUME TypeOK, NEW p \in Pos, NEW correct \in MaybePos, Adopt(p, correct)
    PROVE  tgt' \in TargetStates /\ held' \in HeldTargets
<1>1. PICK echo \in {p, held.notified} :
          /\ NotifyPiFinder(p, echo)
          /\ held' = [forwarded |-> p, original |-> p, correct |-> correct, notified |-> echo]
  BY DEF Adopt
<1>2. p \in MaybePos /\ echo \in MaybePos
  BY DEF MaybePos, TypeOK, HeldTargets
<1>3. tgt' \in TargetStates
  <2>1. CASE Request(p, "bridge")
    BY <2>1, RequestType DEF Sources
  <2>2. CASE UNCHANGED tgt
    BY <2>2 DEF TypeOK
  <2>3. QED  BY <1>1, <2>1, <2>2 DEF NotifyPiFinder
<1>4. QED  BY <1>1, <1>2, <1>3 DEF HeldTargets

LEMMA RepositionType ==
    ASSUME TypeOK, WaitsLeft, HandleReposition
    PROVE  TypeOK' /\ WaitsLeft'
<1>1. tick' \in Ticks /\ UNCHANGED <<cam, sel, budget>>
  <2>1. NoTick \in Ticks /\ [tick EXCEPT !.phase = "act"] \in Ticks
    BY DEF NoTick, Ticks, MaybePos, TypeOK
  <2>2. QED
    BY <2>1
    DEF HandleReposition, PendingWait, TimeoutBlind, TimeoutRevert, NoPositions, ExternalSettling,
        ExternalAwaitSolve, AdoptReposition, OwnMotionOrStale, ConfirmedGood, NotSuspicious,
        AskOperator, Watching, Classifying, Detecting, Handled, PassOn
<1>2. rep' \in Detections
  <2>1. /\ 0 \in 0..Forever /\ ConfirmTicks \in 0..ConfirmTicks
        /\ rep \in Detections /\ Polled \in Detections
    BY Limits, PolledType DEF TypeOK
  <2>2. CASE PendingWait \/ TimeoutBlind \/ TimeoutRevert \/ NoPositions
    <3>1. rep' = rep \/ rep' = [rep EXCEPT !.confirm = FALSE]
      BY <2>2 DEF PendingWait, TimeoutBlind, TimeoutRevert, NoPositions
    <3>2. QED  BY <2>1, <3>1 DEF Detections
  <2>3. CASE ExternalSettling
    <3>1. Polled.settle - 1 \in 0..SettleTicks
      BY <2>1, <2>3, Limits DEF ExternalSettling, Detections
    <3>2. rep' = [Polled EXCEPT !.settle = @ - 1]
      BY <2>3 DEF ExternalSettling
    <3>3. QED  BY <2>1, <3>1, <3>2 DEF Detections
  <2>4. CASE AdoptReposition
    <3>1. rep' = [Polled EXCEPT !.ext = FALSE, !.goodAge = 0]
      BY <2>4 DEF AdoptReposition
    <3>2. QED  BY <2>1, <3>1 DEF Detections
  <2>5. CASE ConfirmedGood
    <3>1. rep' = [Polled EXCEPT !.goodAge = 0, !.trusted = TRUE]
      BY <2>5 DEF ConfirmedGood
    <3>2. QED  BY <2>1, <3>1 DEF Detections
  <2>6. CASE AskOperator
    <3>1. rep' = [Polled EXCEPT !.confirm = TRUE, !.deadline = ConfirmTicks]
      BY <2>6 DEF AskOperator
    <3>2. QED  BY <2>1, <3>1 DEF Detections
  <2>7. QED
    BY <2>1, <2>2, <2>3, <2>4, <2>5, <2>6
    DEF HandleReposition, ExternalAwaitSolve, OwnMotionOrStale, NotSuspicious
<1>3. CASE TimeoutRevert
  <2>1. tick.pi \in Pos /\ tick.pi \in MaybePos /\ RevertTarget \in MaybePos
    BY <1>3 DEF TimeoutRevert, HavePositions, RevertTarget, TypeOK, Ticks, HeldTargets, MaybePos
  <2>2. /\ Commanded /\ fwd' \in ForwardStates /\ cor' \in CorrectStates
        /\ fwd' = fwd \/ fwd'.state = "SLEWING"
        /\ cor' = cor \/ cor'.state = "SLEWING"
    BY <1>3, <2>1, RevertType DEF TimeoutRevert
  <2>3. tgt' \in TargetStates /\ held' \in HeldTargets
    <3>1. held.correct \in MaybePos
      BY DEF TypeOK, HeldTargets
    <3>2. Adopt(tick.pi, held.correct) \/ UNCHANGED <<tgt, held>>
      BY <1>3 DEF TimeoutRevert
    <3>3. QED  BY <2>1, <3>1, <3>2, AdoptType DEF TypeOK
  <2>4. WaitsLeft'
    BY <2>2 DEF WaitsLeft
  <2>5. QED  BY <1>1, <1>2, <2>2, <2>3, <2>4 DEF Commanded, TypeOK
<1>4. CASE AdoptReposition
  <2>1. Commanded
    BY <1>4, SendNothingType DEF AdoptReposition, Watching, Commanded
  <2>2. tick.pi \in Pos
    BY <1>4 DEF AdoptReposition, Watching, HavePositions, TypeOK, Ticks, MaybePos
  <2>3. tgt' \in TargetStates /\ held' \in HeldTargets
    BY <1>4, <2>2, AdoptType DEF AdoptReposition, MaybePos
  <2>4. fwd' \in ForwardStates /\ fwd'.state = "HOLDING"
    BY <1>4 DEF AdoptReposition, TypeOK, ForwardStates
  <2>5. cor' \in CorrectStates /\ cor'.state = "IDLE"
    BY <1>4 DEF AdoptReposition, Reset, TypeOK, CorrectStates
  <2>6. WaitsLeft'
    BY <2>4, <2>5 DEF WaitsLeft
  <2>7. QED  BY <1>1, <1>2, <2>1, <2>3, <2>4, <2>5, <2>6 DEF Commanded, TypeOK
<1>5. CASE SendNothing /\ UNCHANGED <<tgt, fwd, cor, held>>
  <2>1. Commanded
    BY <1>5, SendNothingType DEF Commanded
  <2>2. QED  BY <1>1, <1>2, <1>5, <2>1 DEF Commanded, TypeOK, WaitsLeft
<1>6. QED
  BY <1>3, <1>4, <1>5
  DEF HandleReposition, PendingWait, TimeoutBlind, NoPositions, ExternalSettling,
      ExternalAwaitSolve, OwnMotionOrStale, ConfirmedGood, NotSuspicious, AskOperator,
      Watching, Classifying

------------------------------------------------------------------------------
LEMMA OlderType ==
    ASSUME NEW cap \in Nat, NEW age \in 0..cap
    PROVE  Older(age, cap) \in 0..cap
BY DEF Older

(* What a tick goes by.                                                    *)
LEMMA PositionsType ==
    ASSUME NEW solve \in Solves, NEW m \in MountStates
    PROVE  Positions(solve, m) \in Ticks
BY DEF Positions, NoTick, Solves, MountStates, Ticks, MaybePos

(* How a tick begins, whatever it goes on to.                              *)
LEMMA BeginTickType ==
    ASSUME TypeOK, WaitsLeft, BeginTick
    PROVE  /\ cam' \in Solves /\ sky' \in MountStates
           /\ tick' \in Ticks => TypeOK' /\ WaitsLeft'
<1>1. cam' \in Solves
  <2>1. Stale \in Nat /\ cam.age \in 0..Stale
    BY Limits DEF Stale, TypeOK, Solves
  <2>2. Older(cam.age, Stale) \in 0..Stale
    BY <2>1, OlderType
  <2>3. QED  BY <2>2 DEF BeginTick, TypeOK, Solves
<1>2. rep' \in Detections
  <2>1. rep.polledAge \in 0..Forever /\ rep.goodAge \in 0..Forever /\ rep.deadline \in 0..ConfirmTicks
    BY DEF TypeOK, Detections
  <2>2. Older(rep.polledAge, Forever) \in 0..Forever /\ Older(rep.goodAge, Forever) \in 0..Forever
    BY <2>1, OlderType, Limits
  <2>3. PICK d \in 0..ConfirmTicks :
            rep' = [rep EXCEPT !.polledAge = Older(@, Forever), !.goodAge = Older(@, Forever),
                               !.deadline = d]
    <3>1. (IF rep.deadline > 0 THEN rep.deadline - 1 ELSE 0) \in 0..ConfirmTicks
      BY <2>1, Limits
    <3>2. QED  BY <3>1 DEF BeginTick
  <2>4. QED  BY <2>2, <2>3 DEF TypeOK, Detections
<1>3. out' \in CommandLists
  <2>1. cam'.at \in MaybePos
    BY <1>1 DEF Solves, MaybePos
  <2>2. QED  BY <2>1, CommandListTypes DEF BeginTick, BootCommands
<1>4. sky' \in MountStates
  BY <1>3, ObeyAllType DEF BeginTick, TypeOK
<1>5. ses' \in SessionStates
  <2>1. Older(ses.cmdAge, OwnWindow) \in 0..OwnWindow /\ 0 \in 0..OwnWindow
    BY OlderType, Limits DEF TypeOK, SessionStates
  <2>2. sky'.mount \in Pos /\ ses.known \in Pos /\ ses.didInit \in BOOLEAN
    BY <1>4 DEF MountStates, TypeOK, SessionStates
  <2>3. (ses.didInit \/ BootDone(out')) \in BOOLEAN
    OBVIOUS
  <2>4. QED  BY <2>1, <2>2, <2>3 DEF BeginTick, SessionStates
<1>6. ASSUME tick' \in Ticks
      PROVE  TypeOK' /\ WaitsLeft'
  BY <1>1, <1>2, <1>3, <1>4, <1>5, <1>6 DEF BeginTick, TypeOK, WaitsLeft
<1>7. QED  BY <1>1, <1>4, <1>6

LEMMA TickStartType ==
    ASSUME TypeOK, WaitsLeft, TickStart
    PROVE  TypeOK' /\ WaitsLeft'
<1>1. tick' \in Ticks
  BY BeginTickType, PositionsType DEF TickStart
<1>2. QED  BY <1>1, BeginTickType DEF TickStart

LEMMA TickType ==
    ASSUME TypeOK, WaitsLeft, Tick
    PROVE  TypeOK' /\ WaitsLeft'
<1>1. CASE SkipDetection
  <2>1. <<>> \in CommandLists
    BY DEF CommandLists
  <2>2. tick' \in Ticks
    BY <1>1 DEF SkipDetection, PassOn, TypeOK, Ticks
  <2>3. QED  BY <1>1, <2>1, <2>2 DEF SkipDetection, TypeOK, WaitsLeft
<1>2. CASE JustWatch
  <2>1. <<>> \in CommandLists
    BY DEF CommandLists
  <2>2. tick' \in Ticks
    BY <1>2 DEF JustWatch, NoTick, Ticks, MaybePos
  <2>3. QED  BY <1>2, <2>1, <2>2 DEF JustWatch, TypeOK, WaitsLeft
<1>3. QED
  BY <1>1, <1>2, TickStartType, RepositionType, ForwardType, CorrectType DEF Tick, RestOfTick

------------------------------------------------------------------------------
LEMMA IdleTypes ==
    /\ NoTick \in Ticks /\ NoReposition \in Detections /\ NothingHeld \in HeldTargets
    /\ IdleForward \in ForwardStates /\ IdleCorrect \in CorrectStates
    /\ <<>> \in CommandLists
<1>1. /\ 0 \in 0..SettleTicks /\ 0 \in 0..FreshWait /\ 0 \in 0..Retries
      /\ 0 \in 0..ConfirmTicks /\ Forever \in 0..Forever
  BY Limits
<1>2. NoTick \in Ticks /\ NothingHeld \in HeldTargets
  BY DEF NoTick, Ticks, NothingHeld, HeldTargets, MaybePos
<1>3. NoReposition \in Detections
  BY <1>1 DEF NoReposition, Detections, MaybePos
<1>4. IdleForward \in ForwardStates /\ IdleCorrect \in CorrectStates
  BY <1>1 DEF IdleForward, IdleCorrect, ForwardStates, CorrectStates
<1>5. <<>> \in CommandLists
  BY DEF CommandLists
<1>6. QED  BY <1>2, <1>3, <1>4, <1>5

(* The state machines put back to IDLE, and Goto-Forward to HOLDING.       *)
LEMMA ResetTypes ==
    ASSUME TypeOK
    PROVE  /\ Reset(fwd) \in ForwardStates /\ Reset(fwd).state = "IDLE"
           /\ [fwd EXCEPT !.state = "HOLDING"] \in ForwardStates
           /\ [fwd EXCEPT !.state = "HOLDING"].state = "HOLDING"
           /\ Reset(cor) \in CorrectStates /\ Reset(cor).state = "IDLE"
<1>1. Reset(fwd) \in ForwardStates /\ Reset(fwd).state = "IDLE"
  BY DEF Reset, TypeOK, ForwardStates
<1>2. /\ [fwd EXCEPT !.state = "HOLDING"] \in ForwardStates
      /\ [fwd EXCEPT !.state = "HOLDING"].state = "HOLDING"
  BY DEF TypeOK, ForwardStates
<1>3. Reset(cor) \in CorrectStates /\ Reset(cor).state = "IDLE"
  BY DEF Reset, TypeOK, CorrectStates
<1>4. QED  BY <1>1, <1>2, <1>3

LEMMA SpendType ==
    ASSUME TypeOK, NEW kind, Spend(kind)
    PROVE  budget' \in 0..Budget
<1>1. budget \in 0..Budget /\ budget > 0 /\ budget' = budget - 1
  BY DEF TypeOK, Spend
<1>2. QED  BY <1>1, Limits

LEMMA InstructType ==
    ASSUME TypeOK, WaitsLeft, Instruct
    PROVE  TypeOK' /\ WaitsLeft'
<1>1. budget' \in 0..Budget
  BY SpendType DEF Instruct, Ask, SetMode, SetAction, SetHold, ConfirmYes, ConfirmNo, Answering,
                   Reconnect, Restart
<1>2. ASSUME NEW mode \in Modes, SetMode(mode)
      PROVE  TypeOK' /\ WaitsLeft'
  <2>1. Commanded
    <3>1. EntryCommands(mode) \in CommandLists
      BY CommandListTypes DEF EntryCommands, TypeOK, Solves, MaybePos
    <3>2. QED  BY <1>2, <3>1, SendType DEF SetMode, Commanded
  <2>2. sel' \in Settings
    BY <1>2 DEF SetMode, TypeOK, Settings
  <2>3. rep' \in Detections
    <3>1. Forever \in 0..Forever
      BY Limits
    <3>2. QED  BY <1>2, <3>1 DEF SetMode, RepositionReset, TypeOK, Detections
  <2>4. tgt' \in TargetStates /\ fwd' \in ForwardStates /\ cor' \in CorrectStates
        /\ fwd'.state = "IDLE" /\ cor'.state = "IDLE"
    BY <1>2, EventType, ResetTypes DEF SetMode
  <2>5. QED
    BY <1>1, <1>2, <2>1, <2>2, <2>3, <2>4 DEF SetMode, BetweenTicks, Commanded, TypeOK, WaitsLeft
<1>3. ASSUME NEW action \in Actions, SetAction(action)
      PROVE  TypeOK' /\ WaitsLeft'
  <2>1. Commanded
    BY <1>3, SendNothingType DEF SetAction, Commanded
  <2>2. sel' \in Settings
    BY <1>3 DEF SetAction, TypeOK, Settings
  <2>3. cor' \in CorrectStates /\ cor'.state = "IDLE"
    BY <1>3, ResetTypes DEF SetAction
  <2>4. QED
    BY <1>1, <1>3, <2>1, <2>2, <2>3 DEF SetAction, BetweenTicks, Commanded, TypeOK, WaitsLeft
<1>4. ASSUME NEW hold \in BOOLEAN, SetHold(hold)
      PROVE  TypeOK' /\ WaitsLeft'
  <2>1. Commanded
    BY <1>4, SendNothingType DEF SetHold, Commanded
  <2>2. sel' \in Settings
    BY <1>4 DEF SetHold, TypeOK, Settings
  <2>3. QED  BY <1>1, <1>4, <2>1, <2>2 DEF SetHold, BetweenTicks, Commanded, TypeOK, WaitsLeft
<1>5. CASE ConfirmYes
  <2>1. Commanded
    BY <1>5, SendNothingType DEF ConfirmYes, Commanded
  <2>2. rep' \in Detections
    <3>1. 0 \in 0..Forever
      BY Limits
    <3>2. /\ [rep EXCEPT !.confirm = FALSE, !.goodAge = 0] \in Detections
          /\ [rep EXCEPT !.confirm = FALSE] \in Detections
      BY <3>1 DEF TypeOK, Detections
    <3>3. QED  BY <1>5, <3>2 DEF ConfirmYes
  <2>3. tgt' \in TargetStates /\ held' \in HeldTargets
    <3>1. cam.at \in Pos
      BY DEF TypeOK, Solves
    <3>2. CASE FreshPosition
      BY <1>5, <3>1, <3>2, AdoptType DEF ConfirmYes, MaybePos
    <3>3. CASE ~FreshPosition
      BY <1>5, <3>3 DEF ConfirmYes, TypeOK
    <3>4. QED  BY <3>2, <3>3
  <2>4. /\ fwd' \in ForwardStates /\ (fwd' = fwd \/ fwd'.state = "HOLDING")
        /\ cor' \in CorrectStates /\ (cor' = cor \/ cor'.state = "IDLE")
    BY <1>5, ResetTypes DEF ConfirmYes, TypeOK
  <2>5. WaitsLeft'
    BY <2>4 DEF WaitsLeft
  <2>6. QED
    BY <1>1, <1>5, <2>1, <2>2, <2>3, <2>4, <2>5
    DEF ConfirmYes, Answering, BetweenTicks, Commanded, TypeOK
<1>6. CASE ConfirmNo
  <2>1. /\ Commanded /\ fwd' \in ForwardStates /\ cor' \in CorrectStates
        /\ fwd' = fwd \/ fwd'.state = "SLEWING"
        /\ cor' = cor \/ cor'.state = "SLEWING"
    <3>1. cam.at \in MaybePos /\ held.forwarded \in MaybePos
      BY DEF TypeOK, Solves, HeldTargets, MaybePos
    <3>2. CASE FreshPosition
      BY <1>6, <3>1, <3>2, RevertType DEF ConfirmNo
    <3>3. CASE ~FreshPosition
      BY <1>6, <3>3, SendNothingType DEF ConfirmNo, Commanded, TypeOK
    <3>4. QED  BY <3>2, <3>3
  <2>2. rep' \in Detections
    BY <1>6 DEF ConfirmNo, TypeOK, Detections
  <2>3. WaitsLeft'
    BY <2>1 DEF WaitsLeft
  <2>4. QED
    BY <1>1, <1>6, <2>1, <2>2, <2>3 DEF ConfirmNo, Answering, BetweenTicks, Commanded, TypeOK
<1>7. CASE Reconnect
  <2>1. sel' \in Settings /\ ses' \in SessionStates /\ out' \in CommandLists
    BY <1>7, IdleTypes DEF Reconnect, TypeOK, Settings, SessionStates
  <2>2. QED  BY <1>1, <1>7, <2>1 DEF Reconnect, BetweenTicks, TypeOK, WaitsLeft
<1>8. CASE Restart
  <2>1. sel' \in Settings
    BY <1>8 DEF Restart, TypeOK, Settings
  <2>2. ses' \in SessionStates
    <3>1. OwnWindow \in 0..OwnWindow
      BY Limits
    <3>2. QED  BY <1>8, <3>1 DEF Restart, TypeOK, SessionStates
  <2>3. sky' \in MountStates
    BY <1>8 DEF Restart, TypeOK, MountStates
  <2>4. WaitsLeft'
    BY <1>8 DEF Restart, IdleForward, IdleCorrect, WaitsLeft
  <2>5. QED
    BY <1>1, <1>8, <2>1, <2>2, <2>3, <2>4, IdleTypes, EventType DEF Restart, TypeOK
<1>9. QED
  BY <1>2, <1>3, <1>4, <1>5, <1>6, <1>7, <1>8 DEF Instruct, Ask

------------------------------------------------------------------------------
LEMMA StoppedType ==
    ASSUME TypeOK, NEW p \in Pos
    PROVE  StoppedAt(p) \in MountStates
<1>1. sky.scope \in Pos /\ sky.mount \in Pos
  BY DEF TypeOK, MountStates
<1>2. Carry(sky.scope, sky.mount, p) \in Pos /\ None \in MaybePos
  BY <1>1, PosAssumption DEF MaybePos
<1>3. QED  BY <1>2 DEF StoppedAt, TypeOK, MountStates

LEMMA WorldType ==
    ASSUME TypeOK, WaitsLeft, AbortMount \/ SomePushTo \/ World
    PROVE  TypeOK' /\ WaitsLeft'
<1>1. <<>> \in CommandLists
  BY DEF CommandLists
<1>2. [cam EXCEPT !.moved = TRUE] \in Solves
  BY DEF TypeOK, Solves
<1>3. CASE AbortMount
  <2>1. budget' \in 0..Budget
    BY <1>3, SpendType DEF AbortMount, Halt
  <2>2. sky' \in MountStates /\ cam' \in Solves
    BY <1>2, <1>3, StoppedType DEF AbortMount, Halt, TypeOK
  <2>3. QED  BY <1>1, <1>3, <2>1, <2>2 DEF AbortMount, Halt, BetweenTicks, TypeOK, WaitsLeft
<1>4. ASSUME NEW p \in Places, PushTo(p)
      PROVE  TypeOK' /\ WaitsLeft'
  <2>1. budget' \in 0..Budget
    BY <1>4, SpendType DEF PushTo
  <2>2. tgt' \in TargetStates
    BY <1>4, RequestType, SetAssumption DEF PushTo, Sources
  <2>3. QED  BY <1>1, <1>4, <2>1, <2>2 DEF PushTo, BetweenTicks, TypeOK, WaitsLeft
<1>5. CASE Arrive
  <2>1. sky.goal \in Pos
    BY <1>5 DEF Arrive, MountSlewing, TypeOK, MountStates, MaybePos
  <2>2. sky' \in MountStates
    BY <1>5, <2>1, StoppedType DEF Arrive
  <2>3. QED  BY <1>1, <1>2, <1>5, <2>2 DEF Arrive, Outside, TypeOK, WaitsLeft
<1>6. CASE Solve
  <2>1. 0 \in 0..Stale
    BY Limits DEF Stale
  <2>2. cam' \in Solves
    BY <1>6, <2>1 DEF Solve, TypeOK, MountStates, Solves
  <2>3. QED  BY <1>1, <1>6, <2>2 DEF Solve, Outside, TypeOK, WaitsLeft
<1>7. CASE Expire
  <2>1. Stale \in 0..Stale
    BY Limits DEF Stale
  <2>2. cam' \in Solves
    BY <1>7, <2>1 DEF Expire, TypeOK, Solves
  <2>3. QED  BY <1>1, <1>7, <2>2 DEF Expire, Outside, TypeOK, WaitsLeft
<1>8. CASE Publish
  <2>1. tgt.wire \in Seq(Publications) /\ tgt.wire # <<>>
    BY <1>8 DEF Publish, TypeOK, TargetStates
  <2>2. Tail(tgt.wire) \in Seq(Publications) /\ Head(tgt.wire) \in Publications
    BY <2>1, HeadTailProperties
  <2>3. Head(tgt.wire).at \in MaybePos /\ Head(tgt.wire).by \in Sources
    BY <2>2 DEF Publications, MaybePos
  <2>4. tgt' \in TargetStates
    BY <1>8, <2>2, <2>3 DEF Publish, TargetStates
  <2>5. QED  BY <1>1, <1>8, <2>4 DEF Publish, TypeOK, WaitsLeft
<1>9. ASSUME NEW p \in Places, ExternalMove(p)
      PROVE  TypeOK' /\ WaitsLeft'
  <2>1. budget' \in 0..Budget
    BY <1>9, SpendType DEF ExternalMove
  <2>2. sky' \in MountStates
    BY <1>9, StoppedType, SetAssumption DEF ExternalMove
  <2>3. QED  BY <1>1, <1>9, <2>1, <2>2 DEF ExternalMove, BetweenTicks, TypeOK, WaitsLeft
<1>10. ASSUME NEW p \in Places, Slip(p)
       PROVE  TypeOK' /\ WaitsLeft'
  <2>1. budget' \in 0..Budget
    BY <1>10, SpendType DEF Slip
  <2>2. sky' \in MountStates
    BY <1>10, SetAssumption DEF Slip, TypeOK, MountStates
  <2>3. QED  BY <1>1, <1>10, <2>1, <2>2 DEF Slip, BetweenTicks, TypeOK, WaitsLeft
<1>11. QED
  BY <1>3, <1>4, <1>5, <1>6, <1>7, <1>8, <1>9, <1>10 DEF World, SomePushTo

------------------------------------------------------------------------------
(* The session begins well.                                                *)
LEMMA InitType ==
    ASSUME Init
    PROVE  TypeOK /\ WaitsLeft
<1>1. PICK s \in Starts :
          /\ sky = [scope |-> s[1], mount |-> s[2], goal |-> None, rejected |-> FALSE]
          /\ cam = [at |-> s[1], age |-> Stale, moved |-> FALSE]
  BY DEF Init
<1>2. s[1] \in Pos /\ s[2] \in Pos
  BY SetAssumption
<1>3. sky \in MountStates
  BY <1>1, <1>2 DEF MountStates, MaybePos
<1>4. cam \in Solves
  BY <1>1, <1>2, Limits DEF Solves, Stale
<1>5. tgt \in TargetStates
  <2>1. <<>> \in Seq(Publications)
    OBVIOUS
  <2>2. QED  BY <2>1 DEF Init, TargetStates, MaybePos, Sources
<1>6. sel \in Settings
  BY DEF Init, Settings
<1>7. ses \in SessionStates
  BY PosAssumption, Limits DEF Init, SessionStates
<1>8. budget \in 0..Budget
  BY Limits DEF Init
<1>9. WaitsLeft
  BY DEF Init, IdleForward, IdleCorrect, WaitsLeft
<1>10. QED
  BY <1>3, <1>4, <1>5, <1>6, <1>7, <1>8, <1>9, IdleTypes DEF Init, TypeOK

(* Every variable of the driver and of its world keeps its type.           *)
THEOREM TypeCorrect == Spec => []TypeOK
<1>1. Init => TypeOK /\ WaitsLeft
  BY InitType
<1>2. TypeOK /\ WaitsLeft /\ [Next]_vars => TypeOK' /\ WaitsLeft'
  <2> SUFFICES ASSUME TypeOK, WaitsLeft, [Next]_vars PROVE TypeOK' /\ WaitsLeft'
    OBVIOUS
  <2>1. CASE UNCHANGED vars
    BY <2>1 DEF vars, TypeOK, WaitsLeft
  <2>2. CASE Next
    BY <2>2, TickType, InstructType, WorldType DEF Next
  <2>3. QED  BY <2>1, <2>2
<1>3. QED  BY <1>1, <1>2, PTL DEF Spec
================================================================================
