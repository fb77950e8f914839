------------------------------ MODULE GotoForward ------------------------------
(***************************************************************************)
(* handleGotoForward(): forward each genuinely new push-to target to the   *)
(* mount (Sync to PiFinder's position, then Goto), wait for the slew,      *)
(* verify the arrival by a fresh solve, refine, and hold the target.  Each *)
(* action is one call, in the state and under the conditions it names.     *)
(***************************************************************************)
EXTENDS BridgeState

(* TimerHit() calls the handler: not handled by reposition detection, not  *)
(* held, mode Goto-Forward.  (The mutant forgets the hold.)                *)
ForwardingThoughHeld(states) ==
    /\ tick.phase = "act" /\ sel.mode = "GOTO"
    /\ fwd.state \in states
    /\ tick' = NoTick
    /\ UNCHANGED <<cam, sel, cor, budget>>
Forwarding(states) ==
    /\ tick.phase = "act" /\ ~sel.hold /\ sel.mode = "GOTO"
    /\ fwd.state \in states
    /\ tick' = NoTick
    /\ UNCHANGED <<cam, sel, cor, budget>>

(* getPiFinderTargetRADE(), and not suspiciously close to RA0/Dec0.        *)
HasTarget == tgt.at \notin {None, Origin}

(* consumeGenuinePiFinderTargetPending(): the pending event is consumed in *)
(* any case, m_lastNotified only by the echo it was waiting for.           *)
EchoPending == tgt.pending # "none" /\ tgt.at = held.notified
Genuine == tgt.pending # "none" /\ tgt.at # held.notified
Consumed == [tgt EXCEPT !.pending = "none"]
HeldAfterConsume == IF EchoPending THEN [held EXCEPT !.notified = None] ELSE held

(* m_forwardAwaitingSync after the event was looked at.  (The mutant looks *)
(* at the event alone.)                                                    *)
WantedNow == HasTarget /\ Genuine
Wanted == HasTarget /\ (fwd.awaiting \/ Genuine)

ForwardNoTarget ==
    /\ Forwarding({"IDLE"}) /\ ~HasTarget
    /\ fwd' = [fwd EXCEPT !.awaiting = FALSE]
    /\ SendNothing
    /\ UNCHANGED <<tgt, held, rep>>

(* No new event: what is there is presumed stale and is merely held.       *)
ForwardBaseline ==
    /\ Forwarding({"IDLE"}) /\ HasTarget /\ ~Wanted
    /\ tgt' = Consumed
    /\ held' = [HeldAfterConsume EXCEPT !.forwarded = tgt.at,
                                        !.original = IF @ = None THEN tgt.at ELSE @]
    /\ fwd' = [fwd EXCEPT !.state = "HOLDING"]
    /\ SendNothing
    /\ UNCHANGED rep

(* IDLE and HOLDING share it: a new target is forwarded, or, when there is *)
(* no fresh position or a command is refused, remembered for later.        *)
ForwardCommands == IF FreshPosition THEN SyncThenTrack(cam.at, tgt.at) ELSE <<>>
ForwardTarget ==
    /\ Forwarding({"IDLE", "HOLDING"}) /\ Wanted /\ BothSent(ForwardCommands)
    /\ Send(ForwardCommands)
    /\ tgt' = Consumed
    /\ held' = [HeldAfterConsume EXCEPT !.forwarded = tgt.at, !.original = tgt.at]
    /\ fwd' = [Slewing(fwd) EXCEPT !.awaiting = FALSE]
    /\ UNCHANGED rep
DeferTarget ==
    /\ Forwarding({"IDLE", "HOLDING"}) /\ Wanted /\ ~BothSent(ForwardCommands)
    /\ Send(ForwardCommands)
    /\ tgt' = Consumed
    /\ held' = HeldAfterConsume
    /\ fwd' = [fwd EXCEPT !.awaiting = TRUE]
    /\ UNCHANGED rep

------------------------------------------------------------------------------
ForwardSlewing ==
    /\ Forwarding({"SLEWING"})
    /\ fwd' = IF MountSlewing THEN fwd ELSE Settling(fwd)
    /\ SendNothing
    /\ UNCHANGED <<tgt, held, rep>>

(* SETTLING, in the order of its checks.                                   *)
ForwardSettling == Forwarding({"SETTLING"}) /\ UNCHANGED <<tgt, held, rep>>

ForwardRejected ==
    /\ ForwardSettling /\ sky.rejected
    /\ fwd' = [fwd EXCEPT !.state = "HOLDING"]
    /\ sky' = [sky EXCEPT !.rejected = FALSE]
    /\ out' = <<>> /\ UNCHANGED ses

(* (The mutant forgets to count down.)                                     *)
ForwardSettleForever ==
    /\ ForwardSettling /\ ~sky.rejected /\ fwd.settle > 0
    /\ SendNothing /\ UNCHANGED fwd
ForwardSettleWait ==
    /\ ForwardSettling /\ ~sky.rejected /\ fwd.settle > 0
    /\ fwd' = [fwd EXCEPT !.settle = @ - 1]
    /\ SendNothing

ForwardFreshWait ==
    /\ ForwardSettling /\ ~sky.rejected /\ fwd.settle = 0 /\ ~FreshPosition
    /\ fwd' = [fwd EXCEPT !.wait = @ - 1, !.state = IF fwd.wait > 1 THEN "SETTLING" ELSE "HOLDING"]
    /\ SendNothing

CanVerify == ~sky.rejected /\ fwd.settle = 0 /\ FreshPosition
Residual == Sep(cam.at, sky.mount)

(* Within the threshold, beyond the sanity cap, or out of retries.         *)
ForwardVerified ==
    /\ ForwardSettling /\ CanVerify /\ ~(Correctable(Residual) /\ fwd.retries > 0)
    /\ fwd' = [fwd EXCEPT !.state = "HOLDING"]
    /\ SendNothing

ForwardRetry ==
    /\ ForwardSettling /\ CanVerify /\ Correctable(Residual) /\ fwd.retries > 0
    /\ LET cmds == SyncThenTrack(cam.at, held.forwarded)
       IN  /\ Send(cmds)
           /\ fwd' = [fwd EXCEPT !.retries = @ - 1,
                                 !.state = IF BothSent(cmds) THEN "SLEWING" ELSE "IDLE"]

------------------------------------------------------------------------------
(* HOLDING without a new target: watch, or pull the mount back to the      *)
(* original target.                                                        *)
ForwardHolding ==
    /\ Forwarding({"HOLDING"}) /\ ~Wanted
    /\ tgt' = IF HasTarget THEN Consumed ELSE tgt

HeldAfterHolding == IF HasTarget THEN HeldAfterConsume ELSE held
HeldPosition == IF held.original = None THEN cam.at ELSE held.original
OriginalDrift == Sep(cam.at, HeldPosition)
MustRecenterBoth ==
    /\ ~MountSlewing /\ ~sky.rejected /\ FreshPosition
    /\ Residual > 0 /\ OriginalDrift > 0
    /\ Residual <= MaxSync /\ OriginalDrift <= MaxSync
MustRecenter ==
    /\ ~MountSlewing /\ ~sky.rejected /\ FreshPosition
    /\ Residual > 0 \/ OriginalDrift > 0
    /\ Residual <= MaxSync /\ OriginalDrift <= MaxSync

ForwardWatch ==
    /\ ForwardHolding /\ ~MustRecenter
    /\ sky' = IF MountSlewing THEN sky ELSE [sky EXCEPT !.rejected = FALSE]
    /\ held' = HeldAfterHolding
    /\ out' = <<>> /\ UNCHANGED <<ses, fwd, rep>>

(* What is held after a recenter was sent.  (The mutant remembers the      *)
(* place it drifted to as the original target.)                            *)
RecenteredHere == [HeldAfterHolding EXCEPT !.forwarded = HeldPosition, !.original = cam.at]
Recentered == [HeldAfterHolding EXCEPT !.forwarded = HeldPosition]
ForwardRecenter ==
    /\ ForwardHolding /\ MustRecenter
    /\ LET cmds == SyncThenTrack(cam.at, HeldPosition)
       IN  /\ Send(cmds)
           /\ IF BothSent(cmds)
              THEN /\ held' = Recentered
                   /\ rep' = [rep EXCEPT !.polled = cam.at, !.polledAge = 0]
                   /\ fwd' = Slewing(fwd)
              ELSE held' = HeldAfterHolding /\ UNCHANGED <<rep, fwd>>

HandleGotoForward ==
    \/ ForwardNoTarget \/ ForwardBaseline \/ ForwardTarget \/ DeferTarget
    \/ ForwardSlewing
    \/ ForwardRejected \/ ForwardSettleWait \/ ForwardFreshWait \/ ForwardVerified \/ ForwardRetry
    \/ ForwardWatch \/ ForwardRecenter
================================================================================
