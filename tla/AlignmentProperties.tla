--------------------------- MODULE AlignmentProperties ---------------------------
(***************************************************************************)
(* What the alignment handlers must and must not do, alone and together    *)
(* with the rest of the driver.                                            *)
(***************************************************************************)
EXTENDS Alignment

AlignedTypeOK ==
    /\ TypeOK
    /\ run \in [state : {"IDLE", "SLEWING", "SETTLING", "DONE"}, points : PointLists \cup {<<>>},
                index : Nat \ {0}, synced : SUBSET Nat, settle : 0..SettleTicks, wait : 0..FreshWait]
    /\ run.state \in {"SLEWING", "SETTLING"} => run.index \in DOMAIN run.points
    /\ run.synced \subseteq DOMAIN run.points
    /\ ali \in [last : Nat, at : Pos, seen : Nat, waiting : 0..GiveUpTicks + 1]
    /\ ali.seen <= ali.last
    /\ astray \in BOOLEAN

(* Only the run itself syncs the mount while it is under way: "an extra    *)
(* one mid-sequence could inject a stray point into the mount's alignment  *)
(* model".  An operator who selects Goto-Forward meanwhile does sync.      *)
RunSyncsAlone ==
    [][Running(run) /\ Passive /\ Passive' /\ Sent("SYNC") # {} => tick.phase = "run"]_alignmentVars

(* A point counts as synced only if the mount is at rest at that point,    *)
(* unless somebody moved or stopped the mount, or it refused to go, since  *)
(* the run sent it to this very point: what happened at an earlier one is  *)
(* no excuse.                                                              *)
SyncedAtPoint ==
    [][~astray /\ run'.synced \ run.synced # {} =>
          ~MountSlewing /\ sky.mount = run.points[run.index]]_alignmentVars

(* The solve a point is synced by was made after the mount came to it.     *)
RunSolved ==
    Passive /\ tick.phase = "run" /\ run.state = "SETTLING" /\ run.settle = 0 /\ cam.moved => ~Fresh

(* While held, and no run is left to finish, no tick commands the mount.   *)
HeldAligningQuiet ==
    [][sel.hold /\ (ses.didInit \/ sel.mode = "VERIFY") /\ ~Running(run) /\ TickStep =>
          out' = <<>>]_alignmentVars

(* A run ends, whatever else the driver does meanwhile, and even if        *)
(* PiFinder never solves again.                                            *)
RunEnds == Running(run) ~> ~Running(run)

(* A new Align is synced, or given up.                                     *)
AlignSettled ==
    NewAlign /\ LooksForAlign ~> ~NewAlign \/ ~LooksForAlign

------------------------------------------------------------------------------
(* Not kept:                                                               *)
(* "A newly-appearing Align (last_align_time increases) -> the mount's     *)
(* EQUATORIAL_EOD_COORD jumps to (last_align_ra, last_align_dec)": once a  *)
(* tick has looked for one in vain.                                        *)
AppearingAlignSynced ==
    [](tick.phase = "detect" /\ LooksForAlign /\ ali.last = 0 =>
          [](NewAlign \/ ali.last = 0 \/ sky.mount = ali.at))

(* An Align's Sync tells the mount where the telescope points.             *)
AlignSyncTrue ==
    [][tick.phase = "align" /\ Sent("SYNC") # {} => sky.scope = ali.at]_alignmentVars
================================================================================
