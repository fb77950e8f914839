------------------------------ MODULE Arrival_proofs ------------------------------
(***************************************************************************)
(* Proofs that only the selected mode's state machine is at work, and that *)
(* an arrival is never judged by a solve from before it, however slews,    *)
(* solves, ticks and requests interleave, provided that a solve is         *)
(* forgotten before the settle time is over.                               *)
(***************************************************************************)
EXTENDS MountBridge_proofs

(* A question is only ever open in the modes that ask one.                 *)
AskedInMode == rep.confirm => sel.mode \in {"AUTO", "GOTO"}

(* SETTLING means that no slew is under way: whatever sends the mount off  *)
(* takes the state machine to SLEWING or to IDLE.                          *)
SettlesAtRest == fwd.state = "SETTLING" \/ cor.state = "SETTLING" => ~MountSlewing

(* A solve from before the end of the slew has aged one tick for each      *)
(* settle tick that has passed, the running tick included.                 *)
Aged(settle) ==
    \/ cam.age = Stale
    \/ cam.age + settle >= SettleTicks + (IF tick.phase = "idle" THEN 0 ELSE 1)
OldSolvesAge ==
    /\ fwd.state = "SETTLING" /\ cam.moved => Aged(fwd.settle)
    /\ cor.state = "SETTLING" /\ cam.moved => Aged(cor.settle)

ArrivalInv == OneCorrector /\ AskedInMode /\ SettlesAtRest /\ OldSolvesAge

------------------------------------------------------------------------------
(* A Sync alone, and a pair of which only the Sync was sent, start no slew. *)
LEMMA SyncStartsNothing ==
    ASSUME TypeOK, NEW p \in MaybePos, NEW q \in MaybePos
    PROVE  /\ ObeyAll(sky, JustSync(p)).goal = sky.goal
           /\ ~BothSent(SyncThenTrack(p, q)) => ObeyAll(sky, SyncThenTrack(p, q)).goal = sky.goal
           /\ ObeyAll(sky, <<>>) = sky
<1>1. ObeyAll(sky, <<>>) = sky
  BY DEF ObeyAll
<1>2. ObeyAll(sky, <<Sync(p)>>).goal = sky.goal
  <2>1. ObeyAll(sky, <<Sync(p)>>) = Obey(sky, Sync(p))
    BY DEF ObeyAll
  <2>2. Obey(sky, Sync(p)) = [sky EXCEPT !.mount = Coerced(p), !.rejected = FALSE]
    BY DEF Obey, Sync
  <2>3. QED  BY <2>1, <2>2 DEF TypeOK, MountStates
<1>3. ObeyAll(sky, JustSync(p)).goal = sky.goal
  BY <1>1, <1>2 DEF JustSync
<1>4. ASSUME ~BothSent(SyncThenTrack(p, q))
      PROVE  ObeyAll(sky, SyncThenTrack(p, q)).goal = sky.goal
  <2>1. Len(<<Sync(p), Track(q)>>) = 2
    OBVIOUS
  <2>2. SyncThenTrack(p, q) = <<>> \/ SyncThenTrack(p, q) = <<Sync(p)>>
    BY <1>4, <2>1 DEF SyncThenTrack, BothSent
  <2>3. QED  BY <1>1, <1>2, <2>2
<1>5. QED  BY <1>1, <1>3, <1>4

(* A tick's step that keeps the solve, and that is not the first of its    *)
(* tick, keeps it aged while the settle time counts down by one at most,   *)
(* and then only as the tick ends.                                         *)
LEMMA AgedKept ==
    ASSUME TypeOK, TypeOK', UNCHANGED cam, tick.phase # "idle",
           NEW k \in Nat, NEW l \in Nat, Aged(k),
           l >= k \/ (tick'.phase = "idle" /\ l + 1 >= k)
    PROVE  Aged(l)'
<1>1. cam.age \in Nat
  BY Limits DEF TypeOK, Solves, Stale
<1>2. CASE cam.age = Stale
  BY <1>2 DEF Aged, Stale
<1>3. CASE cam.age + k >= SettleTicks + 1
  <2>1. cam.age + l >= SettleTicks + (IF tick'.phase = "idle" THEN 0 ELSE 1)
    BY <1>1, <1>3, Limits
  <2>2. QED  BY <2>1 DEF Aged
<1>4. QED  BY <1>2, <1>3 DEF Aged

------------------------------------------------------------------------------
LEMMA ForwardArrival ==
    ASSUME TypeOK, TypeOK', ArrivalInv, HandleGotoForward
    PROVE  ArrivalInv'
<1>1. /\ tick.phase = "act" /\ tick'.phase = "idle" /\ sel.mode = "GOTO"
      /\ UNCHANGED <<cam, sel, cor>>
  BY DEF HandleGotoForward, ForwardNoTarget, ForwardBaseline, ForwardTarget, DeferTarget,
         ForwardSlewing, ForwardSettling, ForwardRejected, ForwardSettleWait, ForwardFreshWait,
         ForwardVerified, ForwardRetry, ForwardHolding, ForwardWatch, ForwardRecenter,
         Forwarding, NoTick
<1>2. cor'.state = "IDLE"
  BY <1>1 DEF ArrivalInv, OneCorrector, TypeOK, CorrectStates
<1>3. rep'.confirm = rep.confirm
  <2>1. [rep EXCEPT !.polled = cam.at, !.polledAge = 0].confirm = rep.confirm
    BY DEF TypeOK, Detections
  <2>2. QED
    BY <2>1
    DEF HandleGotoForward, ForwardNoTarget, ForwardBaseline, ForwardTarget, DeferTarget,
        ForwardSlewing, ForwardSettling, ForwardRejected, ForwardSettleWait, ForwardFreshWait,
        ForwardVerified, ForwardRetry, ForwardWatch, ForwardRecenter
<1>4. CASE fwd'.state # "SETTLING"
  BY <1>1, <1>2, <1>3, <1>4 DEF ArrivalInv, OneCorrector, AskedInMode, SettlesAtRest, OldSolvesAge
<1>5. CASE fwd'.state = "SETTLING" /\ ForwardSlewing
  <2>1. ~MountSlewing /\ UNCHANGED sky /\ fwd'.settle = SettleTicks
    BY <1>5, SettlingType DEF ForwardSlewing, Forwarding, SendNothing
  <2>2. cam'.age + fwd'.settle >= SettleTicks
    BY <1>1, <2>1, Limits DEF TypeOK, Solves, Stale
  <2>3. Aged(fwd.settle)'
    BY <1>1, <2>2, Limits DEF Aged
  <2>4. QED
    BY <1>1, <1>2, <1>3, <2>1, <2>3
    DEF ArrivalInv, OneCorrector, AskedInMode, SettlesAtRest, MountSlewing, OldSolvesAge
<1>6. CASE fwd'.state = "SETTLING" /\ (ForwardSettleWait \/ ForwardFreshWait)
  <2>1. fwd.state = "SETTLING" /\ UNCHANGED sky
    BY <1>6
    DEF ForwardSettleWait, ForwardFreshWait, ForwardSettling, Forwarding, SendNothing
  <2>2. fwd.settle \in Nat /\ fwd'.settle \in Nat /\ fwd'.settle + 1 >= fwd.settle
    <3>1. fwd.settle \in Nat
      BY Limits DEF TypeOK, ForwardStates
    <3>2. fwd'.settle \in Nat
      BY Limits DEF TypeOK, ForwardStates
    <3>3. fwd'.settle = fwd.settle - 1 \/ fwd'.settle = fwd.settle
      BY <1>6 DEF ForwardSettleWait, ForwardFreshWait, TypeOK, ForwardStates
    <3>4. QED  BY <3>1, <3>2, <3>3
  <2>3. cam.moved => Aged(fwd.settle)'
    BY <1>1, <2>1, <2>2, AgedKept DEF ArrivalInv, OldSolvesAge, Aged
  <2>4. QED
    BY <1>1, <1>2, <1>3, <2>1, <2>3
    DEF ArrivalInv, OneCorrector, AskedInMode, SettlesAtRest, MountSlewing, OldSolvesAge
<1>7. QED
  <2>1. fwd'.state = "SETTLING" => ForwardSlewing \/ ForwardSettleWait \/ ForwardFreshWait
    <3>1. CASE ForwardNoTarget \/ ForwardBaseline \/ DeferTarget
      BY <3>1 DEF ForwardNoTarget, ForwardBaseline, DeferTarget, Forwarding, TypeOK, ForwardStates
    <3>2. CASE ForwardTarget
      BY <3>2, SlewingType DEF ForwardTarget, ForwardStates
    <3>3. CASE ForwardRejected \/ ForwardVerified
      <4>1. fwd' = [fwd EXCEPT !.state = "HOLDING"]
        BY <3>3 DEF ForwardRejected, ForwardVerified
      <4>2. QED  BY <4>1 DEF TypeOK, ForwardStates
    <3>4. CASE ForwardRetry
      <4>1. PICK x \in {"SLEWING", "IDLE"} : fwd' = [fwd EXCEPT !.retries = @ - 1, !.state = x]
        BY <3>4 DEF ForwardRetry
      <4>2. QED  BY <4>1 DEF TypeOK, ForwardStates
    <3>5. CASE ForwardWatch \/ ForwardRecenter
      BY <3>5, SlewingType DEF ForwardWatch, ForwardRecenter, ForwardHolding, Forwarding
    <3>6. QED
      BY <3>1, <3>2, <3>3, <3>4, <3>5 DEF HandleGotoForward
  <2>2. QED  BY <1>4, <1>5, <1>6, <2>1

LEMMA CorrectArrival ==
    ASSUME TypeOK, TypeOK', ArrivalInv, HandleAutoCorrect
    PROVE  ArrivalInv'
<1>1. /\ tick.phase = "act" /\ tick'.phase = "idle" /\ sel.mode = "AUTO"
      /\ UNCHANGED <<cam, sel, fwd, rep>>
  BY DEF HandleAutoCorrect, CorrectBySync, CorrectMonitor, CorrectStart, CorrectSlewing,
         CorrectSettling, CorrectRejected, CorrectSettleWait, CorrectFreshWait, CorrectVerified,
         CorrectRetry, Correcting, NoTick
<1>2. fwd'.state \notin {"SLEWING", "SETTLING"}
  BY <1>1 DEF ArrivalInv, OneCorrector
<1>3. CASE cor'.state # "SETTLING"
  BY <1>1, <1>2, <1>3 DEF ArrivalInv, OneCorrector, AskedInMode, SettlesAtRest, OldSolvesAge
<1>4. CASE cor'.state = "SETTLING" /\ CorrectSlewing
  <2>1. ~MountSlewing /\ UNCHANGED sky /\ cor'.settle = SettleTicks
    BY <1>4, SettlingType DEF CorrectSlewing, Correcting, SendNothing
  <2>2. cam'.age + cor'.settle >= SettleTicks
    BY <1>1, <2>1, Limits DEF TypeOK, Solves, Stale
  <2>3. Aged(cor.settle)'
    BY <1>1, <2>2, Limits DEF Aged
  <2>4. QED
    BY <1>1, <1>2, <2>1, <2>3
    DEF ArrivalInv, OneCorrector, AskedInMode, SettlesAtRest, MountSlewing, OldSolvesAge
<1>5. CASE cor'.state = "SETTLING" /\ (CorrectSettleWait \/ CorrectFreshWait)
  <2>1. cor.state = "SETTLING" /\ UNCHANGED sky
    BY <1>5 DEF CorrectSettleWait, CorrectFreshWait, CorrectSettling, SendNothing
  <2>2. cor.settle \in Nat /\ cor'.settle \in Nat /\ cor'.settle + 1 >= cor.settle
    <3>1. cor.settle \in Nat
      BY Limits DEF TypeOK, CorrectStates
    <3>2. cor'.settle \in Nat
      BY Limits DEF TypeOK, CorrectStates
    <3>3. cor'.settle = cor.settle - 1 \/ cor'.settle = cor.settle
      BY <1>5 DEF CorrectSettleWait, CorrectFreshWait, TypeOK, CorrectStates
    <3>4. QED  BY <3>1, <3>2, <3>3
  <2>3. cam.moved => Aged(cor.settle)'
    BY <1>1, <2>1, <2>2, AgedKept DEF ArrivalInv, OldSolvesAge, Aged
  <2>4. QED
    BY <1>1, <1>2, <2>1, <2>3
    DEF ArrivalInv, OneCorrector, AskedInMode, SettlesAtRest, MountSlewing, OldSolvesAge
<1>6. CASE cor'.state = "SETTLING" /\ CorrectBySync
  (* Only the mount's model changes.                                       *)
  <2>1. tick.pi \in MaybePos
    BY DEF TypeOK, Ticks
  <2>2. sky'.goal = sky.goal /\ UNCHANGED cor
    BY <1>6, <2>1, SyncStartsNothing DEF CorrectBySync, SyncCommands, Send
  <2>3. cam.moved => Aged(cor.settle)'
    <3>1. cor.settle \in Nat /\ cor.settle >= cor.settle
      BY Limits DEF TypeOK, CorrectStates
    <3>2. QED  BY <1>1, <1>6, <2>2, <3>1, AgedKept DEF ArrivalInv, OldSolvesAge, Aged
  <2>4. QED
    BY <1>1, <1>2, <1>6, <2>2, <2>3
    DEF ArrivalInv, OneCorrector, AskedInMode, SettlesAtRest, MountSlewing, OldSolvesAge
<1>7. QED
  <2>1. cor'.state = "SETTLING" =>
            CorrectSlewing \/ CorrectSettleWait \/ CorrectFreshWait \/ CorrectBySync
    <3>1. CASE CorrectMonitor
      BY <3>1 DEF CorrectMonitor
    <3>2. CASE CorrectStart
      BY <3>2, SlewingType DEF CorrectStart
    <3>3. CASE CorrectRejected \/ CorrectVerified
      <4>1. cor' = Reset(cor)
        BY <3>3 DEF CorrectRejected, CorrectVerified
      <4>2. QED  BY <4>1, ResetTypes
    <3>4. CASE CorrectRetry
      <4>1. PICK x \in {"SLEWING", "IDLE"} : cor' = [cor EXCEPT !.retries = @ - 1, !.state = x]
        BY <3>4 DEF CorrectRetry
      <4>2. QED  BY <4>1 DEF TypeOK, CorrectStates
    <3>5. QED
      BY <3>1, <3>2, <3>3, <3>4 DEF HandleAutoCorrect
  <2>2. QED  BY <1>3, <1>4, <1>5, <1>6, <2>1

------------------------------------------------------------------------------
(* A step that leaves both state machines, or takes them out of SLEWING    *)
(* and SETTLING, and starts no slew.                                       *)
LEMMA QuietArrival ==
    ASSUME TypeOK, TypeOK', ArrivalInv, UNCHANGED <<cam, sel>>,
           sky'.goal = sky.goal,
           fwd' = fwd \/ fwd'.state \notin {"SLEWING", "SETTLING"},
           cor' = cor \/ cor'.state \notin {"SLEWING", "SETTLING"},
           rep'.confirm => rep.confirm \/ sel.mode \in {"AUTO", "GOTO"},
           tick.phase # "idle" \/ tick'.phase = "idle"
    PROVE  ArrivalInv'
<1>1. ASSUME NEW k \in Nat, Aged(k)
      PROVE  Aged(k)'
  <2>1. CASE tick.phase # "idle"
    <3>1. k >= k
      OBVIOUS
    <3>2. QED  BY <1>1, <2>1, <3>1, AgedKept
  <2>2. CASE tick.phase = "idle"
    BY <1>1, <2>2 DEF Aged, Stale
  <2>3. QED  BY <2>1, <2>2
<1>2. fwd.settle \in Nat /\ cor.settle \in Nat
  BY Limits DEF TypeOK, ForwardStates, CorrectStates
<1>3. OldSolvesAge'
  <2>1. fwd'.state = "SETTLING" /\ cam'.moved => Aged(fwd.settle)'
    <3>1. SUFFICES ASSUME fwd' = fwd, fwd.state = "SETTLING", cam.moved
                   PROVE  Aged(fwd.settle)'
      OBVIOUS
    <3>2. Aged(fwd.settle)
      BY <3>1 DEF ArrivalInv, OldSolvesAge
    <3>3. QED  BY <1>1, <1>2, <3>1, <3>2 DEF Aged
  <2>2. cor'.state = "SETTLING" /\ cam'.moved => Aged(cor.settle)'
    <3>1. SUFFICES ASSUME cor' = cor, cor.state = "SETTLING", cam.moved
                   PROVE  Aged(cor.settle)'
      OBVIOUS
    <3>2. Aged(cor.settle)
      BY <3>1 DEF ArrivalInv, OldSolvesAge
    <3>3. QED  BY <1>1, <1>2, <3>1, <3>2 DEF Aged
  <2>3. QED  BY <2>1, <2>2 DEF OldSolvesAge
<1>4. OneCorrector' /\ AskedInMode' /\ SettlesAtRest'
  BY DEF ArrivalInv, OneCorrector, AskedInMode, SettlesAtRest, MountSlewing
<1>5. QED  BY <1>3, <1>4 DEF ArrivalInv

(* A revert to the held target: it starts a slew and its verification, or  *)
(* it leaves everything but the mount's model alone.                       *)
LEMMA RevertArrival ==
    ASSUME TypeOK, TypeOK', ArrivalInv, NEW p \in MaybePos, NEW q \in MaybePos, Revert(p, q),
           sel.mode \in {"AUTO", "GOTO"}, UNCHANGED <<cam, sel>>, ~rep'.confirm,
           tick'.phase = "idle"
    PROVE  ArrivalInv'
<1>1. CASE BothSent(SyncThenTrack(p, q)) /\ sel.mode = "GOTO"
  <2>1. fwd'.state = "SLEWING" /\ UNCHANGED cor
    BY <1>1, SlewingType DEF Revert
  <2>2. cor.state \notin {"SLEWING", "SETTLING"}
    BY <1>1 DEF ArrivalInv, OneCorrector
  <2>3. QED
    BY <1>1, <2>1, <2>2 DEF ArrivalInv, OneCorrector, AskedInMode, SettlesAtRest, OldSolvesAge
<1>2. CASE BothSent(SyncThenTrack(p, q)) /\ sel.mode = "AUTO"
  <2>1. cor'.state = "SLEWING" /\ UNCHANGED fwd
    BY <1>2, SlewingType DEF Revert
  <2>2. fwd.state \notin {"SLEWING", "SETTLING"}
    BY <1>2 DEF ArrivalInv, OneCorrector
  <2>3. QED
    BY <1>2, <2>1, <2>2 DEF ArrivalInv, OneCorrector, AskedInMode, SettlesAtRest, OldSolvesAge
<1>3. CASE ~BothSent(SyncThenTrack(p, q))
  <2>1. UNCHANGED <<fwd, cor>>
    BY <1>3 DEF Revert
  <2>2. sky'.goal = sky.goal
    BY <1>3, SyncStartsNothing DEF Revert, Send
  <2>3. QED  BY <2>1, <2>2, QuietArrival
<1>4. QED  BY <1>1, <1>2, <1>3

LEMMA RepositionArrival ==
    ASSUME TypeOK, TypeOK', ArrivalInv, HandleReposition
    PROVE  ArrivalInv'
<1>1. tick.phase = "detect" /\ DetectionApplies /\ UNCHANGED <<cam, sel>>
  BY DEF HandleReposition, PendingWait, TimeoutBlind, TimeoutRevert, NoPositions,
         ExternalSettling, ExternalAwaitSolve, AdoptReposition, OwnMotionOrStale, ConfirmedGood,
         NotSuspicious, AskOperator, Watching, Classifying, Detecting
<1>2. sel.mode \in {"AUTO", "GOTO"}
  BY <1>1 DEF DetectionApplies
<1>3. CASE TimeoutRevert
  <2>1. tick.pi \in MaybePos /\ RevertTarget \in MaybePos
    BY DEF RevertTarget, TypeOK, Ticks, HeldTargets
  <2>2. ~rep'.confirm /\ tick'.phase = "idle"
    BY <1>3 DEF TimeoutRevert, Handled, NoTick, TypeOK, Detections
  <2>3. QED  BY <1>1, <1>2, <1>3, <2>1, <2>2, RevertArrival DEF TimeoutRevert
<1>4. CASE AdoptReposition
  <2>1. /\ UNCHANGED sky /\ fwd'.state = "HOLDING" /\ cor'.state = "IDLE"
    BY <1>4, ResetTypes DEF AdoptReposition, Watching, SendNothing
  <2>2. QED  BY <1>1, <1>2, <2>1, QuietArrival
<1>5. CASE SendNothing /\ UNCHANGED <<fwd, cor>>
  BY <1>1, <1>2, <1>5, QuietArrival DEF SendNothing
<1>6. QED
  BY <1>3, <1>4, <1>5
  DEF HandleReposition, PendingWait, TimeoutBlind, NoPositions, ExternalSettling,
      ExternalAwaitSolve, OwnMotionOrStale, ConfirmedGood, NotSuspicious, AskOperator,
      Watching, Classifying

LEMMA TickArrival ==
    ASSUME TypeOK, TypeOK', ArrivalInv, Tick
    PROVE  ArrivalInv'
<1>1. CASE TickStart
  <2>1. /\ tick.phase = "idle" /\ tick'.phase = "detect" /\ UNCHANGED <<sel, fwd, cor>>
        /\ cam'.moved = cam.moved /\ cam'.age = Older(cam.age, Stale)
        /\ rep'.confirm = rep.confirm
    BY <1>1 DEF TickStart, BeginTick, Positions, NoTick, TypeOK, Solves, Detections
  <2>2. sky'.goal = sky.goal
    <3>1. cam'.at \in MaybePos
      BY DEF TypeOK, Solves, MaybePos
    <3>2. QED  BY <1>1, <3>1, SyncStartsNothing DEF TickStart, BeginTick, Positions, NoTick, BootCommands
  <2>3. ASSUME NEW k \in Nat, Aged(k)
        PROVE  Aged(k)'
    <3>1. cam.age \in Nat
      BY Limits DEF TypeOK, Solves, Stale
    <3>2. CASE cam.age >= Stale
      BY <2>1, <3>1, <3>2, Limits DEF Aged, Older, Stale, TypeOK, Solves
    <3>3. CASE cam.age < Stale
      <4>1. cam'.age = cam.age + 1
        BY <2>1, <3>3 DEF Older
      <4>2. cam.age + k >= SettleTicks
        BY <2>1, <2>3, <3>1, <3>3, Limits DEF Aged, Stale
      <4>3. cam'.age + k >= SettleTicks + 1
        BY <3>1, <4>1, <4>2, Limits
      <4>4. QED  BY <2>1, <4>3 DEF Aged
    <3>4. QED  BY <3>1, <3>2, <3>3, Limits DEF Stale
  <2>4. fwd.settle \in Nat /\ cor.settle \in Nat
    BY Limits DEF TypeOK, ForwardStates, CorrectStates
  <2>5. OldSolvesAge'
    BY <2>1, <2>3, <2>4 DEF ArrivalInv, OldSolvesAge, Aged
  <2>6. QED
    BY <2>1, <2>2, <2>5 DEF ArrivalInv, OneCorrector, AskedInMode, SettlesAtRest, MountSlewing
<1>2. CASE SkipDetection
  BY <1>2, QuietArrival DEF SkipDetection
<1>3. CASE JustWatch
  BY <1>3, QuietArrival DEF JustWatch
<1>4. QED
  BY <1>1, <1>2, <1>3, RepositionArrival, ForwardArrival, CorrectArrival DEF Tick, RestOfTick

------------------------------------------------------------------------------
LEMMA InstructArrival ==
    ASSUME TypeOK, TypeOK', ArrivalInv, Instruct
    PROVE  ArrivalInv'
<1>1. ASSUME NEW mode \in Modes, SetMode(mode)
      PROVE  ArrivalInv'
  <2>1. fwd'.state = "IDLE" /\ cor'.state = "IDLE" /\ ~rep'.confirm
    BY <1>1, ResetTypes DEF SetMode, RepositionReset, TypeOK, Detections
  <2>2. QED
    BY <2>1 DEF ArrivalInv, OneCorrector, AskedInMode, SettlesAtRest, OldSolvesAge
<1>2. ASSUME NEW action \in Actions, SetAction(action)
      PROVE  ArrivalInv'
  <2>1. /\ UNCHANGED <<sky, cam, fwd, rep, tick>> /\ cor'.state = "IDLE"
        /\ sel'.mode = sel.mode
    BY <1>2, ResetTypes DEF SetAction, SendNothing, BetweenTicks, TypeOK, Settings
  <2>2. QED
    BY <2>1
    DEF ArrivalInv, OneCorrector, AskedInMode, SettlesAtRest, MountSlewing, OldSolvesAge, Aged
<1>3. ASSUME NEW hold \in BOOLEAN, SetHold(hold)
      PROVE  ArrivalInv'
  <2>1. UNCHANGED <<sky, cam, fwd, cor, rep, tick>> /\ sel'.mode = sel.mode
    BY <1>3 DEF SetHold, SendNothing, BetweenTicks, TypeOK, Settings
  <2>2. QED
    BY <2>1
    DEF ArrivalInv, OneCorrector, AskedInMode, SettlesAtRest, MountSlewing, OldSolvesAge, Aged
<1>4. CASE ConfirmYes
  <2>1. UNCHANGED <<cam, sel, sky, tick>> /\ rep.confirm
    BY <1>4 DEF ConfirmYes, Answering, SendNothing, BetweenTicks
  <2>2. fwd' = fwd \/ fwd'.state = "HOLDING"
    BY <1>4, ResetTypes DEF ConfirmYes
  <2>3. cor' = cor \/ cor'.state = "IDLE"
    BY <1>4, ResetTypes DEF ConfirmYes
  <2>4. tick.phase # "idle" \/ tick'.phase = "idle"
    BY <2>1
  <2>5. sky'.goal = sky.goal
    BY <2>1
  <2>6. QED  BY <2>1, <2>2, <2>3, <2>4, <2>5, QuietArrival
<1>5. CASE ConfirmNo
  <2>1. /\ UNCHANGED <<cam, sel>> /\ rep.confirm /\ tick.phase = "idle" /\ tick'.phase = "idle"
        /\ ~rep'.confirm
    BY <1>5 DEF ConfirmNo, Answering, BetweenTicks, TypeOK, Detections
  <2>2. sel.mode \in {"AUTO", "GOTO"}
    BY <2>1 DEF ArrivalInv, AskedInMode
  <2>3. CASE FreshPosition
    <3>1. cam.at \in MaybePos /\ held.forwarded \in MaybePos
      BY DEF TypeOK, Solves, HeldTargets, MaybePos
    <3>2. Revert(cam.at, held.forwarded)
      BY <1>5, <2>3 DEF ConfirmNo
    <3>3. QED  BY <2>1, <2>2, <3>1, <3>2, RevertArrival
  <2>4. CASE ~FreshPosition
    <3>1. UNCHANGED <<sky, fwd, cor>>
      BY <1>5, <2>4 DEF ConfirmNo, SendNothing
    <3>2. QED  BY <2>1, <3>1, QuietArrival
  <2>5. QED  BY <2>3, <2>4
<1>6. CASE Reconnect
  <2>1. UNCHANGED <<sky, cam, fwd, cor, rep, tick>> /\ sel'.mode = sel.mode
    BY <1>6 DEF Reconnect, BetweenTicks, TypeOK, Settings
  <2>2. QED
    BY <2>1
    DEF ArrivalInv, OneCorrector, AskedInMode, SettlesAtRest, MountSlewing, OldSolvesAge, Aged
<1>7. CASE Restart
  BY <1>7
  DEF Restart, IdleForward, IdleCorrect, NoReposition, ArrivalInv, OneCorrector, AskedInMode,
      SettlesAtRest, OldSolvesAge
<1>8. QED
  BY <1>1, <1>2, <1>3, <1>4, <1>5, <1>6, <1>7 DEF Instruct, Ask

LEMMA WorldArrival ==
    ASSUME TypeOK, TypeOK', ArrivalInv, AbortMount \/ SomePushTo \/ World
    PROVE  ArrivalInv'
<1>1. UNCHANGED <<sel, fwd, cor, rep, tick>>
  BY DEF AbortMount, Halt, SomePushTo, PushTo, World, Arrive, Solve, Expire, Publish, ExternalMove, Slip,
         Outside, BetweenTicks
<1>2. CASE MountSlewing /\ (AbortMount \/ Arrive)
  (* A slew ends: nobody is settling yet.                                  *)
  <2>1. fwd.state # "SETTLING" /\ cor.state # "SETTLING"
    BY <1>2 DEF ArrivalInv, SettlesAtRest
  <2>2. QED
    BY <1>1, <2>1 DEF ArrivalInv, OneCorrector, AskedInMode, SettlesAtRest, OldSolvesAge
<1>3. CASE Solve
  <2>1. UNCHANGED sky /\ ~cam'.moved
    BY <1>3 DEF Solve
  <2>2. QED
    BY <1>1, <2>1
    DEF ArrivalInv, OneCorrector, AskedInMode, SettlesAtRest, MountSlewing, OldSolvesAge
<1>4. CASE Expire
  <2>1. UNCHANGED sky /\ cam'.age = Stale
    BY <1>4 DEF Expire, TypeOK, Solves
  <2>2. cam'.age = Stale'
    BY <2>1 DEF Stale
  <2>3. QED
    BY <1>1, <2>1, <2>2
    DEF ArrivalInv, OneCorrector, AskedInMode, SettlesAtRest, MountSlewing, OldSolvesAge, Aged
<1>5. CASE UNCHANGED cam /\ (sky'.goal = sky.goal \/ sky'.goal = None)
  <2>1. OldSolvesAge'
    BY <1>1, <1>5 DEF ArrivalInv, OldSolvesAge, Aged, Stale
  <2>2. SettlesAtRest'
    BY <1>1, <1>5 DEF ArrivalInv, SettlesAtRest, MountSlewing
  <2>3. QED  BY <1>1, <2>1, <2>2 DEF ArrivalInv, OneCorrector, AskedInMode
<1>6. CASE SomePushTo \/ Publish \/ (AbortMount /\ ~MountSlewing)
  <2>1. UNCHANGED <<sky, cam>>
    BY <1>6 DEF SomePushTo, PushTo, Publish, AbortMount, Halt
  <2>2. QED  BY <1>5, <2>1
<1>7. ASSUME NEW p \in Places, ExternalMove(p) \/ Slip(p)
      PROVE  ArrivalInv'
  <2>1. UNCHANGED cam /\ (sky'.goal = sky.goal \/ sky'.goal = None)
    BY <1>7 DEF ExternalMove, Slip, StoppedAt, TypeOK, MountStates
  <2>2. QED  BY <1>5, <2>1
<1>8. QED
  BY <1>2, <1>3, <1>4, <1>6, <1>7 DEF World, Arrive

------------------------------------------------------------------------------
LEMMA ArrivalInvariant == Spec => []ArrivalInv
<1>1. Init => ArrivalInv
  BY DEF Init, IdleForward, IdleCorrect, NoReposition, ArrivalInv, OneCorrector, AskedInMode,
         SettlesAtRest, OldSolvesAge
<1>2. TypeOK /\ TypeOK' /\ ArrivalInv /\ [Next]_vars => ArrivalInv'
  <2> SUFFICES ASSUME TypeOK, TypeOK', ArrivalInv, [Next]_vars PROVE ArrivalInv'
    OBVIOUS
  <2>1. CASE UNCHANGED vars
    BY <2>1
    DEF vars, ArrivalInv, OneCorrector, AskedInMode, SettlesAtRest, MountSlewing, OldSolvesAge,
        Aged, Stale
  <2>2. CASE Next
    BY <2>2, TickArrival, InstructArrival, WorldArrival DEF Next
  <2>3. QED  BY <2>1, <2>2
<1>3. QED  BY <1>1, <1>2, TypeCorrect, PTL DEF Spec

(* Whatever is selected, asked and answered, Goto-Forward and Auto-correct *)
(* never both work on a correction, and only the selected one does.        *)
THEOREM OneCorrectorAlways == Spec => []OneCorrector
<1>1. ArrivalInv => OneCorrector
  BY DEF ArrivalInv
<1>2. QED  BY <1>1, ArrivalInvariant, PTL

(* And whatever is selected, asked and answered, an arrival is settled,    *)
(* verified and refined while no slew is under way: a refinement's Sync is *)
(* that of a mount at rest.                                                *)
THEOREM SettlesAtRestAlways == Spec => []SettlesAtRest
<1>1. ArrivalInv => SettlesAtRest
  BY DEF ArrivalInv
<1>2. QED  BY <1>1, ArrivalInvariant, PTL

(* With a freshness limit no longer than the settle time, which the        *)
(* defaults of SolveFreshnessMaxAgeNP and SETTLE_TICKS satisfy, the solve  *)
(* SETTLING judges the arrival by was made after the slew had ended.       *)
THEOREM ArrivalSolvedAlways ==
    ASSUME MaxAge <= SettleTicks
    PROVE  Spec => []ArrivalSolved
<1>1. TypeOK /\ ArrivalInv => ArrivalSolved
  <2> SUFFICES ASSUME TypeOK, ArrivalInv PROVE ArrivalSolved
    OBVIOUS
  <2>1. ASSUME NEW k, k = 0, Aged(k), tick.phase = "act"
        PROVE  ~Fresh
    BY <2>1, Limits DEF Aged, Stale, Fresh, TypeOK, Solves
  <2>2. QED
    BY <2>1
    DEF ArrivalInv, OldSolvesAge, ArrivalSolved, ForwardArrivalSolved, CorrectArrivalSolved
<1>2. QED  BY <1>1, TypeCorrect, ArrivalInvariant, PTL
================================================================================
