------------------------------ MODULE AutoCorrect ------------------------------
(***************************************************************************)
(* Mode Auto-correct: handleAutoCorrectGoto(), which sends the mount to    *)
(* where PiFinder says it points, verifies the arrival and refines it, and *)
(* the plain Sync correction of TimerHit().  Both use the positions        *)
(* TimerHit() read at the start of the tick (tick.pi, tick.mount) and ask  *)
(* for the solve's freshness again when they act.                          *)
(***************************************************************************)
EXTENDS BridgeState

Correcting(action) ==
    /\ tick.phase = "act" /\ ~sel.hold /\ tick.pi # None
    /\ sel.mode = "AUTO" /\ sel.action = action
    /\ tick' = NoTick
    /\ UNCHANGED <<cam, tgt, sel, fwd, rep, budget>>

Drift == Sep(tick.pi, tick.mount)

(* ACTION_SYNC: beyond the threshold, fresh, and within the sanity cap.    *)
SyncCommands ==
    IF Fresh /\ Correctable(Drift) THEN JustSync(tick.pi) ELSE <<>>
CorrectBySync ==
    /\ Correcting("SYNC")
    /\ Send(SyncCommands)
    /\ UNCHANGED <<cor, held>>

------------------------------------------------------------------------------
(* ACTION_GOTO, IDLE.                                                      *)
GotoCommands == IF Drift > 0 /\ Fresh THEN JustTrack(tick.pi) ELSE <<>>
CorrectMonitor ==
    /\ Correcting("GOTO") /\ cor.state = "IDLE" /\ GotoCommands = <<>>
    /\ SendNothing
    /\ UNCHANGED <<cor, held>>
CorrectStart ==
    /\ Correcting("GOTO") /\ cor.state = "IDLE" /\ GotoCommands # <<>>
    /\ Send(GotoCommands)
    /\ held' = [held EXCEPT !.correct = tick.pi]
    /\ cor' = Slewing(cor)

CorrectSlewing ==
    /\ Correcting("GOTO") /\ cor.state = "SLEWING"
    /\ cor' = IF MountSlewing THEN cor ELSE Settling(cor)
    /\ SendNothing
    /\ UNCHANGED held

(* SETTLING, in the order of its checks.                                   *)
CorrectSettling == Correcting("GOTO") /\ cor.state = "SETTLING" /\ UNCHANGED held

CorrectRejected ==
    /\ CorrectSettling /\ sky.rejected
    /\ cor' = Reset(cor)
    /\ sky' = [sky EXCEPT !.rejected = FALSE]
    /\ out' = <<>> /\ UNCHANGED ses

(* (The mutant forgets to count down.)                                     *)
CorrectSettleForever ==
    /\ CorrectSettling /\ ~sky.rejected /\ cor.settle > 0
    /\ SendNothing /\ UNCHANGED cor
CorrectSettleWait ==
    /\ CorrectSettling /\ ~sky.rejected /\ cor.settle > 0
    /\ cor' = [cor EXCEPT !.settle = @ - 1]
    /\ SendNothing

CorrectFreshWait ==
    /\ CorrectSettling /\ ~sky.rejected /\ cor.settle = 0 /\ ~Fresh
    /\ cor' = [cor EXCEPT !.wait = @ - 1, !.state = IF cor.wait > 1 THEN "SETTLING" ELSE "IDLE"]
    /\ SendNothing

CanCheck == ~sky.rejected /\ cor.settle = 0 /\ Fresh

CorrectVerified ==
    /\ CorrectSettling /\ CanCheck /\ ~(Correctable(Drift) /\ cor.retries > 0)
    /\ cor' = Reset(cor)
    /\ SendNothing

CorrectRetry ==
    /\ CorrectSettling /\ CanCheck /\ Correctable(Drift) /\ cor.retries > 0
    /\ LET cmds == SyncThenTrack(tick.pi, held.correct)
       IN  /\ Send(cmds)
           /\ cor' = [cor EXCEPT !.retries = @ - 1,
                                 !.state = IF BothSent(cmds) THEN "SLEWING" ELSE "IDLE"]

HandleAutoCorrect ==
    \/ CorrectBySync
    \/ CorrectMonitor \/ CorrectStart
    \/ CorrectSlewing
    \/ CorrectRejected \/ CorrectSettleWait \/ CorrectFreshWait \/ CorrectVerified \/ CorrectRetry
================================================================================
