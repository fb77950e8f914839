----------------------------- MODULE BridgePromises -----------------------------
(***************************************************************************)
(* Statements of the driver's comments, log messages and documents that    *)
(* the code does not keep.  The README names the run, or the instance,     *)
(* that violates each.                                                     *)
(***************************************************************************)
EXTENDS BridgeProperties

(* "The whole point of a push-to is that the mount then *holds* that       *)
(* target" (pifinder_mount_bridge.h:573): however often it was disturbed   *)
(* before, it comes to point there in the end.                             *)
HoldsTarget == <>[]OnTarget

(* m_externalSlewInProgress means "a mount slew we did NOT ourselves just  *)
(* command" (pifinder_mount_bridge.h:747): if nobody but the driver ever   *)
(* moves the mount or the telescope, no external slew is seen.             *)
OwnSlewNotExternal == Events \cap {"move", "slip", "abort"} = {} => ~rep.ext

(* "Yes" adopts the new position as the held target: a disagreement        *)
(* between that very position and the mount is not asked about again.      *)
AnsweredIsSettled ==
    [][~rep.confirm /\ rep'.confirm =>
          ~(held.original = tick.pi /\ held.forwarded = tick.pi)]_vars

(* "Any mode change resets the Goto-Forward state machine, so re-entering  *)
(* it always re-baselines against whatever target PiFinder currently has   *)
(* instead of reacting to a stale one."                                    *)
ReentryRebaselines ==
    [][tick.phase = "act" /\ fwd.state = "IDLE" /\ fwd'.state = "HOLDING" =>
          held'.original = tgt.at]_vars

(* Without a confirmed-good baseline, Auto-correct is "still backstopped   *)
(* by MaxSyncDriftNP".                                                     *)
AutoBackstopped ==
    [][tick.phase = "act" /\ sel.mode = "AUTO" /\ Sent("TRACK") # {} => Drift <= MaxSync]_vars

(* What Auto-correct's SETTLING verifies, and refines, is what its slew    *)
(* was sent to.                                                            *)
CorrectAimed == cor.state = "SLEWING" /\ MountSlewing => sky.goal = held.correct

(* UC4: PiFinder's publication of a target the driver itself pushed there  *)
(* is "recognized and skipped"; it does not change the held target.        *)
EchoSkipped ==
    [][tick.phase = "act" /\ fwd.state = "HOLDING" /\ ~fwd.awaiting /\ tgt.pending = "bridge" =>
          held'.original = held.original]_vars

(* The remembered echo "can't suppress any later, genuinely new push-to".  *)
PushToTaken ==
    [][fwd.state = "HOLDING" /\ tick.phase = "act" /\ tgt.pending = "user" /\ tgt'.pending = "none" =>
          fwd'.awaiting \/ held'.original = tgt.at]_vars

(* A question nobody answers is "reverted automatically" at its deadline.  *)
TimeoutReverts ==
    [][tick.phase = "detect" /\ rep.confirm /\ ~rep'.confirm => Sent("TRACK") # {}]_vars

(* "Mount refused the Goto [...] Not retrying the same command - now       *)
(* holding": HOLDING does not send it again by itself.                     *)
RefusedNotRepeated ==
    [][tick.phase = "act" /\ fwd.state = "HOLDING" /\ ~Wanted =>
          \A i \in Sent("TRACK") : out'[i].at \notin Unreachable]_vars
================================================================================
