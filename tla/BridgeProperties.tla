---------------------------- MODULE BridgeProperties ----------------------------
(***************************************************************************)
(* What the Mount Bridge must and must not do, checked to hold in the runs *)
(* of MCMountBridge that name it.  A few of these hold only under the      *)
(* conditions of their run; BridgePromises has the statements the code     *)
(* breaks.                                                                 *)
(***************************************************************************)
EXTENDS MountBridge

Sent(op) == {i \in DOMAIN out' : out'[i].op = op}

(* At most n disturbances and requests so far.                             *)
AtMost(n) == budget + n >= Budget

(* A step of TimerHit(), as opposed to a request's or the world's.         *)
TickStep == tick' # tick

------------------------------------------------------------------------------
(* An arrival is verified by a solve made after it (ForwardState::SETTLING *)
(* and CorrectState::SETTLING wait SETTLE_TICKS, then for freshness): when *)
(* a settled state machine is about to look at PiFinder, a solve from      *)
(* before the end of the slew has expired, however slews, solves and ticks *)
(* interleave.                                                             *)
ForwardArrivalSolved ==
    tick.phase = "act" /\ fwd.state = "SETTLING" /\ fwd.settle = 0 /\ cam.moved => ~Fresh
CorrectArrivalSolved ==
    tick.phase = "act" /\ cor.state = "SETTLING" /\ cor.settle = 0 /\ cam.moved => ~Fresh
ArrivalSolved == ForwardArrivalSolved /\ CorrectArrivalSolved

(* The mount is never sent a coordinate nobody recorded: every NaN default *)
(* (m_lastForwarded, m_originalTarget, m_correctTarget) is written before  *)
(* it is sent, or sendMountCoordsSafe() stops it.                          *)
GotoTargetSet == \A i \in DOMAIN out : out[i].at # None

(* What SETTLING verifies, and refines, is what the running slew of        *)
(* Goto-Forward was sent to: every writer of m_lastForwarded, the          *)
(* operator's answers and the timeout included, sends the mount there too, *)
(* unless the mount refuses to go there and goes on to where it was going. *)
ForwardAimed ==
    fwd.state = "SLEWING" /\ MountSlewing =>
        sky.goal = Coerced(held.forwarded) \/ Coerced(held.forwarded) \in Unreachable

(* Goto-Forward's and Auto-correct's state machines never both have a      *)
(* slew of their own in flight, and only the one of the selected mode      *)
(* does, whatever the operator selects and answers in between.             *)
OneCorrector ==
    /\ fwd.state \in {"SLEWING", "SETTLING"} => sel.mode = "GOTO"
    /\ cor.state \in {"SLEWING", "SETTLING"} => sel.mode = "AUTO"

(* OriginalTargetNP is what the user asked for: only a push-to event, a    *)
(* confirmed reposition or a restart changes it, never a correction.       *)
OriginalTargetFixed ==
    [][held'.original # held.original =>
          \/ held'.original = None
          \/ held.original = None
          \/ held'.original = tgt.at /\ (fwd.awaiting \/ tgt.pending # "none")
          \/ rep.ext \/ rep.confirm]_vars

(* An external reposition is adopted, as held target and towards PiFinder, *)
(* where the telescope came to rest, never where it was seen on its way    *)
(* (m_externalSettleTicksRemaining is restarted by further motion); only   *)
(* further motion that the sky's rotation may explain since the last look  *)
(* does not restart it, and puts the place off by that much.  Not so for   *)
(* what the mount's position cannot show: a clutch that slips as well, or  *)
(* the last of three motions going back within one poll.                   *)
AdoptsRestingPlace ==
    [][rep.ext /\ ~rep'.ext /\ TickStep /\ sky.scope = sky.mount /\ AtMost(2) =>
          Sep(held'.original, sky.scope) <= PassiveDrift(Forever)]_vars

(* While a confirmation is open, no tick commands the mount, as long as    *)
(* the mount's position was bootstrapped and the mode and action are still *)
(* those that ask: a reconnect, or the action Sync, does not wait for the  *)
(* answer.                                                                 *)
PendingQuiet ==
    [][rep.confirm /\ rep'.confirm /\ ses.didInit /\ (DetectionApplies \/ sel.hold) /\ TickStep
          => out' = <<>>]_vars

(* While held, and once the mount's position was bootstrapped, no tick     *)
(* commands the mount, whatever was in flight when the hold was taken.     *)
HoldQuiet == [][sel.hold /\ ses.didInit /\ TickStep => out' = <<>>]_vars

(* While somebody else drives the mount, no tick commands it, as long as   *)
(* the mount's position was bootstrapped and the mode and action are those *)
(* that watch, except in a tick that found no position when it looked for  *)
(* others' motions, and one when the mode's handler looked again.          *)
SolvedMeanwhile == tick.phase = "act" /\ tick.pi = None /\ FreshPosition
ExternalWins ==
    [][rep.ext /\ rep'.ext /\ ses.didInit /\ (DetectionApplies \/ sel.hold) /\ TickStep
          => out' = <<>> \/ SolvedMeanwhile]_vars

(* The mount's model is never re-synced while the mount is slewing.        *)
SyncAtRest == [][Sent("SYNC") # {} => ~MountSlewing]_vars

------------------------------------------------------------------------------
(* A question whose deadline finds no solve is closed, and asked again as  *)
(* soon as there is one; nothing else happens meanwhile.  The properties   *)
(* below are about a solver that does not fail at every deadline.          *)
DeadlinesSolved == <>[](rep.confirm /\ rep.deadline = 0 => FreshPosition)

(* In Goto-Forward, a push-to the driver has heard of, and that is not to  *)
(* where it just sent PiFinder itself (see PushToTaken), becomes the       *)
(* target it holds, unless a later one, or the telescope seen moved by     *)
(* others, takes its place: whatever it was doing, and whenever a solve    *)
(* came.                                                                   *)
PushToDelivered ==
    DeadlinesSolved => \A p \in Places :
        (sel.mode = "GOTO" /\ tgt.pending = "user" /\ tgt.at = p /\ held.notified # p) ~>
            (held.original = p \/ tgt.at # p \/ rep.ext)

(* No correction is for ever: no slew is waited for, no fresh solve, and   *)
(* no refinement goes on, without an end (m_freshnessWaitTicksRemaining,   *)
(* m_settleRetriesRemaining).                                              *)
Underway == {"SLEWING", "SETTLING"}
ForwardEnds == DeadlinesSolved => (fwd.state \in Underway ~> fwd.state \notin Underway)
CorrectEnds == DeadlinesSolved => (cor.state \in Underway ~> cor.state \notin Underway)

(* The point of it all: after a push-to, a move or a slip, of a telescope  *)
(* whose model may be off, it comes to point, and stays pointing, at the   *)
(* held target, unless that is farther away than the driver may go by      *)
(* itself (MaxSyncDriftNP).  HoldsTarget is the same without the bound.    *)
OutOfReach(a, b) == Sep(a, b) > MaxSync
OnTarget ==
    \/ sel.mode # "GOTO" \/ held.original = None \/ sky.scope = held.original
    \/ OutOfReach(sky.scope, held.original) \/ OutOfReach(sky.scope, sky.mount)
TargetHeld == DeadlinesSolved => <>[](AtMost(1) => OnTarget)

(* Auto-correct brings mount and PiFinder to agree, within the same limit. *)
Agreement ==
    DeadlinesSolved => <>[](sel.mode = "AUTO" => sky.scope = sky.mount \/ OutOfReach(sky.scope, sky.mount))

(* A question to the operator is settled, by an answer or by its timeout.  *)
ConfirmResolved == rep.confirm ~> ~rep.confirm

(* A motion of others is adopted, or superseded, in the end: detection     *)
(* never watches for ever while solves keep coming.                        *)
ExternalResolved == rep.ext ~> ~rep.ext
================================================================================
