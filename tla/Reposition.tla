------------------------------- MODULE Reposition -------------------------------
(***************************************************************************)
(* handleRepositionDetection(): TimerHit()'s check, before the mode's own  *)
(* handler, for a telescope that somebody else moved.  "Fall 2": the motors *)
(* moved without a command of the driver; wait until they rest, then adopt *)
(* the new position.  "Fall 3": a disagreement the sky's rotation explains. *)
(* "Fall 4": one it does not; ask the operator, and revert after a timeout. *)
(* Each action is one call: those that return true end the tick, the       *)
(* others pass it on to the mode's handler.                                *)
(***************************************************************************)
EXTENDS BridgeState

DetectionApplies ==
    /\ ~sel.hold
    /\ sel.mode = "GOTO" \/ (sel.mode = "AUTO" /\ sel.action = "GOTO")

Detecting ==
    /\ tick.phase = "detect" /\ DetectionApplies
    /\ UNCHANGED <<cam, sel, budget>>
NotHandled == tick' = [tick EXCEPT !.phase = "act"]
Handled == tick' = NoTick
PassOn  == tick' = [tick EXCEPT !.phase = "act"]

HavePositions == tick.pi # None

(* The driver itself started the current motion, has an alignment run      *)
(* under way, or commanded the mount within the last seconds.  (The mutant *)
(* only knows the last.)                                                   *)
RecentlyCommanded == ses.cmdAge < OwnWindow
WeCommandedIt ==
    fwd.state = "SLEWING" \/ cor.state = "SLEWING" \/ tick.aligning \/ RecentlyCommanded

(* What the sky's rotation can do in a number of ticks.                    *)
PassiveDrift(ticks) == ticks \div PassiveTicks

(* Onset, and resumption, of a motion nobody here commanded.  (The mutants *)
(* do not settle again on resumption, and compare with the onset's place.) *)
MountJumped ==
    /\ rep.polled # None /\ ~WeCommandedIt
    /\ Sep(tick.mount, rep.polled) > PassiveDrift(rep.polledAge)
PolledOnset ==
    [rep EXCEPT !.ext = @ \/ MountJumped, !.settle = IF MountJumped /\ ~rep.ext THEN SettleTicks ELSE @,
                !.polled = tick.mount, !.polledAge = 0]
PolledFrozen ==
    [rep EXCEPT !.ext = @ \/ MountJumped, !.settle = IF MountJumped THEN SettleTicks ELSE @,
                !.polled = IF rep.ext THEN @ ELSE tick.mount, !.polledAge = 0]
Polled ==
    [rep EXCEPT !.ext = @ \/ MountJumped, !.settle = IF MountJumped THEN SettleTicks ELSE @,
                !.polled = tick.mount, !.polledAge = 0]

(* setOriginalTarget() and m_lastForwarded := the adopted position, and,   *)
(* but for the timeout, m_correctTarget; PiFinder is told.                 *)
Adopt(p, correct) ==
    \E echo \in {p, held.notified} :
        /\ NotifyPiFinder(p, echo)
        /\ held' = [forwarded |-> p, original |-> p, correct |-> correct, notified |-> echo]

(* Back to the held target, through SLEWING so that the arrival is         *)
(* verified: shared by the timeout and by the operator's No.               *)
Revert(p, target) ==
    LET cmds == SyncThenTrack(p, target)
    IN  /\ Send(cmds)
        /\ fwd' = IF BothSent(cmds) /\ sel.mode = "GOTO" THEN Slewing(fwd) ELSE fwd
        /\ cor' = IF BothSent(cmds) /\ sel.mode # "GOTO" THEN Slewing(cor) ELSE cor

------------------------------------------------------------------------------
(* A confirmation is open.  (The mutant has no deadline.)                  *)
PendingForever ==
    /\ Detecting /\ rep.confirm
    /\ Handled /\ SendNothing
    /\ UNCHANGED <<tgt, fwd, cor, held, rep>>
PendingWait ==
    /\ Detecting /\ rep.confirm /\ rep.deadline > 0
    /\ Handled /\ SendNothing
    /\ UNCHANGED <<tgt, fwd, cor, held, rep>>

TimeoutBlind ==
    /\ Detecting /\ rep.confirm /\ rep.deadline = 0 /\ ~HavePositions
    /\ rep' = [rep EXCEPT !.confirm = FALSE]
    /\ Handled /\ SendNothing
    /\ UNCHANGED <<tgt, fwd, cor, held>>

(* (The mutant reverts to where PiFinder is.)                              *)
RevertHere == tick.pi
RevertTarget == IF held.forwarded = None THEN tick.pi ELSE held.forwarded
TimeoutRevert ==
    /\ Detecting /\ rep.confirm /\ rep.deadline = 0 /\ HavePositions
    /\ rep' = [rep EXCEPT !.confirm = FALSE]
    /\ IF held.forwarded = None THEN Adopt(tick.pi, held.correct) ELSE UNCHANGED <<tgt, held>>
    /\ Revert(tick.pi, RevertTarget)
    /\ Handled

------------------------------------------------------------------------------
NoPositions ==
    /\ Detecting /\ ~rep.confirm /\ ~HavePositions
    /\ PassOn /\ SendNothing
    /\ UNCHANGED <<tgt, fwd, cor, held, rep>>

Watching == Detecting /\ ~rep.confirm /\ HavePositions /\ SendNothing

(* Fall 2: still moving or settling.                                       *)
ExternalSettling ==
    /\ Watching /\ Polled.ext /\ Polled.settle > 0
    /\ rep' = [Polled EXCEPT !.settle = @ - 1]
    /\ Handled /\ UNCHANGED <<tgt, fwd, cor, held>>

(* Fall 2: at rest, but no fresh solve.                                    *)
ExternalAwaitSolve ==
    /\ Watching /\ Polled.ext /\ Polled.settle = 0 /\ ~Fresh
    /\ rep' = Polled
    /\ Handled /\ UNCHANGED <<tgt, fwd, cor, held>>

(* Fall 2: adopt.                                                          *)
AdoptReposition ==
    /\ Watching /\ Polled.ext /\ Polled.settle = 0 /\ Fresh
    /\ rep' = [Polled EXCEPT !.ext = FALSE, !.goodAge = 0]
    /\ Adopt(tick.pi, tick.pi)
    /\ fwd' = [fwd EXCEPT !.state = "HOLDING"]
    /\ cor' = Reset(cor)
    /\ Handled

------------------------------------------------------------------------------
(* No external motion: classify the disagreement with PiFinder.            *)
Drifted == Sep(tick.pi, tick.mount)
Classifying == Watching /\ ~Polled.ext /\ UNCHANGED <<tgt, fwd, cor, held>>
Judging == ~WeCommandedIt /\ Fresh

OwnMotionOrStale ==
    /\ Classifying /\ ~Judging
    /\ rep' = Polled
    /\ PassOn

ConfirmedGood ==
    /\ Classifying /\ Judging /\ Drifted = 0
    /\ rep' = [Polled EXCEPT !.goodAge = 0, !.trusted = TRUE]
    /\ PassOn

(* No baseline since the last reset, or Fall 3.                            *)
Suspicious == Drifted > 0 /\ rep.trusted /\ Drifted > PassiveDrift(rep.goodAge)
NotSuspicious ==
    /\ Classifying /\ Judging /\ Drifted > 0 /\ ~Suspicious
    /\ rep' = Polled
    /\ PassOn

(* Fall 4.                                                                 *)
AskOperator ==
    /\ Classifying /\ Judging /\ Suspicious
    /\ rep' = [Polled EXCEPT !.confirm = TRUE, !.deadline = ConfirmTicks]
    /\ Handled

HandleReposition ==
    \/ PendingWait \/ TimeoutBlind \/ TimeoutRevert
    \/ NoPositions
    \/ ExternalSettling \/ ExternalAwaitSolve \/ AdoptReposition
    \/ OwnMotionOrStale \/ ConfirmedGood \/ NotSuspicious \/ AskOperator
================================================================================
