------------------------------- MODULE Alignment -------------------------------
(***************************************************************************)
(* The Mount Bridge with its two alignment handlers, which TimerHit()      *)
(* calls, in every mode, before it reads the positions:                    *)
(* handleMultiPointAlignment() takes the mount to each of the points       *)
(* PiFinder proposed, and syncs it there by a fresh solve;                 *)
(* handlePiFinderAlignSync() syncs it once after the user has aligned      *)
(* PiFinder with the telescope.                                            *)
(***************************************************************************)
EXTENDS BridgeProperties, FiniteSets

CONSTANTS
    PointLists,  \* what PiFinder's /api/nearby_bright_stars may answer
    GiveUpTicks  \* ALIGN_SYNC_RETRY_MAX_SEC

ASSUME AlignmentAssumption ==
    /\ PointLists \subseteq Seq(Pos) \ {<<>>}
    /\ GiveUpTicks \in Nat \ {0}

VARIABLES
    run,  \* the multi-point alignment run: its points, the one it is at, those synced
    ali,  \* PiFinder's last Align: which, where; the last one seen to; ticks one is waiting
    astray \* history: since the run sent the mount to its point, something else moved the
           \* mount, might have, or kept it from going there

driverVars == <<vars, run, ali>>
alignmentVars == <<driverVars, astray>>

NoRun == [state |-> "IDLE", points |-> <<>>, index |-> 1, synced |-> {}, settle |-> 0, wait |-> 0]
Running(r) == r.state \in {"SLEWING", "SETTLING"}

------------------------------------------------------------------------------
(* gotoAlignPoint(): the slew to the point the run is at, or the run's end. *)
GotoPoint(r) == JustTrack(r.points[r.index])
Departed(r, cmds) == [r EXCEPT !.state = IF cmds = <<>> THEN "IDLE" ELSE "SLEWING"]

(* advanceAlignPoint(), after the commands of the point that is left.      *)
Advance(cmds, r) ==
    LET next == [r EXCEPT !.index = @ + 1]
    IN  IF r.index = Len(r.points)
        THEN Send(cmds) /\ run' = [next EXCEPT !.state = "DONE"]
        ELSE Send(cmds \o GotoPoint(next)) /\ run' = Departed(next, GotoPoint(next))

(* handleMultiPointAlignment(): each action is one call.                   *)
InRun(states) ==
    /\ tick.phase = "run" /\ run.state \in states
    /\ tick' = [tick EXCEPT !.phase = "align"]
    /\ UNCHANGED <<cam, tgt, sel, fwd, cor, held, rep, budget, ali>>

RunNothing == InRun({"IDLE", "DONE"}) /\ SendNothing /\ UNCHANGED run

(* (The mutants do not wait for the end of the slew, or for the mount to   *)
(* settle.)                                                                *)
ArrivedAtOnce(r) == [r EXCEPT !.state = "SETTLING", !.settle = 0, !.wait = FreshWait]
Arrived(r) == [r EXCEPT !.state = "SETTLING", !.settle = SettleTicks, !.wait = FreshWait]
RunSlewingBlind ==
    /\ InRun({"SLEWING"}) /\ SendNothing
    /\ run' = Arrived(run)
RunSlewing ==
    /\ InRun({"SLEWING"}) /\ SendNothing
    /\ run' = IF MountSlewing THEN run ELSE Arrived(run)

RunSettleWait ==
    /\ InRun({"SETTLING"}) /\ run.settle > 0
    /\ run' = [run EXCEPT !.settle = @ - 1]
    /\ SendNothing

(* No fresh solve: wait, and skip the point when that took too long.       *)
(* (The mutants do not count, or do not stop counting.)                    *)
RunUnsolved == InRun({"SETTLING"}) /\ run.settle = 0 /\ ~FreshPosition
RunWaitForever == RunUnsolved /\ SendNothing /\ UNCHANGED run
RunWaitOn == RunUnsolved /\ SendNothing /\ run' = [run EXCEPT !.wait = @ - 1]
RunFreshWait ==
    /\ RunUnsolved /\ run.wait > 1
    /\ run' = [run EXCEPT !.wait = @ - 1]
    /\ SendNothing
RunSkipPoint ==
    /\ RunUnsolved /\ run.wait = 1
    /\ Advance(<<>>, [run EXCEPT !.wait = 0])

RunSyncPoint ==
    /\ InRun({"SETTLING"}) /\ run.settle = 0 /\ FreshPosition /\ ~Refused(cam.at)
    /\ Advance(JustSync(cam.at), [run EXCEPT !.synced = @ \cup {run.index}])
RunSyncRefused ==
    /\ InRun({"SETTLING"}) /\ run.settle = 0 /\ FreshPosition /\ Refused(cam.at)
    /\ Advance(<<>>, run)

HandleMultiPointAlignment ==
    \/ RunNothing \/ RunSlewing
    \/ RunSettleWait \/ RunFreshWait \/ RunSkipPoint \/ RunSyncPoint \/ RunSyncRefused

------------------------------------------------------------------------------
(* handlePiFinderAlignSync(), and then the positions are read.             *)
(* (The mutant forgets the hold.)                                          *)
LooksThoughHeld == sel.mode # "OFF"
LooksForAlign == ~sel.hold /\ sel.mode # "OFF"

Aligning ==
    /\ tick.phase = "align"
    /\ UNCHANGED <<cam, tgt, sel, fwd, cor, held, rep, budget, run>>

(* Held, Off, none at all, or none that is new; or PiFinder does not       *)
(* answer.                                                                 *)
NewAlign == ali.last > ali.seen
AlignNothing ==
    /\ Aligning /\ ~(LooksForAlign /\ NewAlign)
    /\ SendNothing /\ UNCHANGED ali
AlignUnanswered ==
    /\ Aligning /\ LooksForAlign /\ NewAlign
    /\ SendNothing /\ UNCHANGED ali
Answered == Aligning /\ LooksForAlign /\ NewAlign

(* The first one seen is taken note of, no more.                           *)
AlignFirstSeen ==
    /\ Answered /\ ali.seen = 0 /\ SendNothing
    /\ ali' = [ali EXCEPT !.seen = ali.last]

(* A new one; the time it waits counts from when it was first seen.  (The  *)
(* mutants count anew on every tick, and do not wait for a run to end.)    *)
WaitingAnew == 1
Waiting == IF ali.waiting = 0 THEN 1 ELSE ali.waiting
GivesUp == Waiting > GiveUpTicks
MountSlewingOnly == MountSlewing
MountBusy == MountSlewing \/ Running(run)
Waits == ali' = [ali EXCEPT !.waiting = Waiting]
Settled == ali' = [ali EXCEPT !.seen = ali.last, !.waiting = 0]

AlignDeferred ==
    /\ Answered /\ ali.seen > 0 /\ ~GivesUp /\ MountBusy
    /\ SendNothing /\ Waits
AlignGivenUp ==
    /\ Answered /\ ali.seen > 0 /\ GivesUp
    /\ SendNothing /\ Settled
AlignSynced ==
    /\ Answered /\ ali.seen > 0 /\ ~GivesUp /\ ~MountBusy
    /\ Send(JustSync(ali.at))
    /\ IF Refused(ali.at) THEN Waits ELSE Settled

AlignAnswered == AlignFirstSeen \/ AlignDeferred \/ AlignGivenUp \/ AlignSynced
ReadPositions == tick' = [Positions(cam, sky') EXCEPT !.aligning = Running(run)]
HandlePiFinderAlignSync ==
    (AlignNothing \/ AlignUnanswered \/ AlignAnswered) /\ ReadPositions

------------------------------------------------------------------------------
(* A tick that has nothing to align goes on at once.                       *)
NothingToAlign == ~Running(run) /\ ~(LooksForAlign /\ NewAlign)
Ageing ==
    /\ ali' = [ali EXCEPT !.waiting = IF @ = 0 THEN 0 ELSE Older(@, GiveUpTicks + 1)]
    /\ UNCHANGED run
TickWithout == NothingToAlign /\ TickStart /\ Ageing
TickWith ==
    /\ ~NothingToAlign /\ BeginTick /\ Ageing
    /\ tick' = [NoTick EXCEPT !.phase = "run"]

(* The operator starts a run, unless one is under way, and stops it, or    *)
(* what became of it.                                                      *)
StartRun(points) ==
    /\ BetweenTicks /\ Spend("start") /\ ~Running(run)
    /\ LET r == [NoRun EXCEPT !.points = points]
       IN  Send(GotoPoint(r)) /\ run' = Departed(r, GotoPoint(r))
    /\ UNCHANGED <<cam, tgt, sel, fwd, cor, held, rep, ali>>
StopRun ==
    /\ BetweenTicks /\ Spend("stop") /\ run.state # "IDLE"
    /\ run' = [run EXCEPT !.state = "IDLE"]
    /\ Halt /\ UNCHANGED ali

(* The user centres an object in the telescope at rest and aligns PiFinder *)
(* with it.                                                                *)
Align ==
    /\ BetweenTicks /\ Spend("align") /\ ~MountSlewing
    /\ ali' = [ali EXCEPT !.last = @ + 1, !.at = sky.scope]
    /\ out' = <<>>
    /\ UNCHANGED <<sky, cam, tgt, sel, fwd, cor, held, rep, ses, run>>

(* With the driver's process ends what it knew of runs and Aligns.         *)
RestartAll ==
    /\ Restart
    /\ run' = NoRun
    /\ ali' = [ali EXCEPT !.seen = 0, !.waiting = 0]

Elsewhere ==
    /\ Ask \/ AbortMount \/ SomePushTo \/ World
    /\ UNCHANGED <<run, ali>>

AlignedTick ==
    \/ TickWithout \/ TickWith
    \/ HandleMultiPointAlignment \/ HandlePiFinderAlignSync
    \/ RestOfTick /\ UNCHANGED <<run, ali>>

(* PiFinder may have been aligned before the driver is started.            *)
AlignedInit ==
    /\ Init
    /\ run = NoRun /\ astray = FALSE
    /\ ali \in [last : {0, 1}, at : {sky.scope}, seen : {0}, waiting : {0}]
AlignedNext ==
    \/ AlignedTick
    \/ \E points \in PointLists : StartRun(points)
    \/ StopRun \/ Align \/ RestartAll
    \/ Elsewhere

(* The modes in which nothing else moves the mount.  In the others, the    *)
(* mode's handler goes on correcting during a run.                         *)
Passive == sel.mode \in {"OFF", "VERIFY"}

(* What astray records.  A slew leads nowhere but to its end; a mount that *)
(* is left alone otherwise stays as it is.                                 *)
Departs == run'.state = "SLEWING" /\ run.state # "SLEWING"
NotLeftAlone ==
    <<sky'.mount, sky'.goal>> \notin {<<sky.mount, sky.goal>>, <<sky.goal, None>>}
Strays ==
    astray' = /\ Running(run')
              /\ \/ ~Passive'
                 \/ IF Departs THEN run'.points[run'.index] \in Unreachable
                    ELSE astray \/ NotLeftAlone

AlignedSpec == AlignedInit /\ [][AlignedNext /\ Strays]_alignmentVars

(* Fairness as in MountBridge, of a PiFinder that answers again and again; *)
(* of solves none is needed.                                               *)
AlignedFairSpec ==
    /\ AlignedSpec
    /\ WF_driverVars(AlignedTick) /\ SF_driverVars(AlignAnswered /\ ReadPositions)
    /\ WF_driverVars(Publish /\ UNCHANGED <<run, ali>>)
    /\ SF_driverVars(Arrive /\ UNCHANGED <<run, ali>>)
================================================================================
