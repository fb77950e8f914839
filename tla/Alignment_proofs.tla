------------------------------ MODULE Alignment_proofs ------------------------------
(***************************************************************************)
(* Proofs about the Mount Bridge with its alignment handlers, for every    *)
(* list of proposed points, every sky and every interleaving: what a run   *)
(* syncs by and where, and who else may command the mount meanwhile.       *)
(***************************************************************************)
EXTENDS AlignmentProperties, Aim_proofs

Runs ==
    [state : {"IDLE", "SLEWING", "SETTLING", "DONE"}, points : PointLists \cup {<<>>},
     index : Nat \ {0}, synced : SUBSET Nat, settle : 0..SettleTicks, wait : 0..FreshWait]
Aligns == [last : Nat, at : Pos, seen : Nat, waiting : 0..GiveUpTicks + 1]

(* A run under way is at one of its points; its freshness wait counts down *)
(* to the tick on which SETTLING is left, so it is positive while it lasts. *)
WellRun(r) ==
    /\ r \in Runs
    /\ Running(r) => r.index \in DOMAIN r.points
    /\ r.synced \subseteq DOMAIN r.points
    /\ r.state = "SETTLING" => r.wait > 0
AtPoint(r) == r \in Runs /\ r.index \in DOMAIN r.points /\ r.synced \subseteq DOMAIN r.points
WellAligned == ali \in Aligns /\ ali.seen <= ali.last

AlignedInv == TypeOK /\ WaitsLeft /\ WellRun(run) /\ WellAligned

------------------------------------------------------------------------------
LEMMA PointTypes ==
    ASSUME NEW r \in Runs, r.index \in DOMAIN r.points
    PROVE  /\ r.points[r.index] \in Pos
           /\ r.points \in Seq(Pos) /\ Len(r.points) \in Nat
           /\ DOMAIN r.points = 1..Len(r.points)
<1>1. r.points # <<>>
  BY DEF Runs
<1>2. r.points \in Seq(Pos)
  BY <1>1, AlignmentAssumption DEF Runs
<1>3. DOMAIN r.points = 1..Len(r.points) /\ Len(r.points) \in Nat
  BY <1>2, LenProperties
<1>4. QED  BY <1>2, <1>3, ElementOfSeq

(* A point's Sync and the next point's Goto are one list of commands.      *)
LEMMA PairedTypes ==
    ASSUME NEW p \in MaybePos, NEW q \in MaybePos
    PROVE  /\ JustSync(p) \o JustTrack(q) \in CommandLists
           /\ <<>> \o JustTrack(q) \in CommandLists
<1>1. Sync(p) \in Commands /\ Track(q) \in Commands
  BY DEF Sync, Track, Commands
<1>2. \A s, t \in Seq(Commands) : s \o t \in Seq(Commands) /\ Len(s \o t) = Len(s) + Len(t)
  BY ConcatProperties
<1>3. ASSUME NEW c \in Commands
      PROVE  /\ <<>> \in Seq(Commands) /\ Len(<<>>) = 0
             /\ <<c>> \in Seq(Commands) /\ Len(<<c>>) = 1
  OBVIOUS
<1>4. QED  BY <1>1, <1>2, <1>3 DEF JustSync, JustTrack, CommandLists

(* To the next point, or to the end.                                       *)
LEMMA AdvanceType ==
    ASSUME TypeOK, NEW r, AtPoint(r), r.state = "SETTLING", NEW cmds,
           cmds = <<>> \/ cmds = JustSync(cam.at), Advance(cmds, r)
    PROVE  Commanded /\ WellRun(run')
<1> DEFINE next == [r EXCEPT !.index = @ + 1]
<1>1. r \in Runs /\ r.index \in DOMAIN r.points /\ r.index \in Nat
  BY DEF AtPoint, Runs
<1>2. cam.at \in MaybePos
  BY DEF TypeOK, Solves, MaybePos
<1>3. next \in Runs /\ next.state = "SETTLING" /\ next.points = r.points
      /\ next.index = r.index + 1 /\ next.synced = r.synced
  BY <1>1 DEF Runs
<1>4. CASE r.index = Len(r.points)
  <2>1. Send(cmds) /\ run' = [next EXCEPT !.state = "DONE"]
    BY <1>4 DEF Advance
  <2>2. Commanded
    BY <1>2, <2>1, CommandListTypes, SendType DEF Commanded
  <2>3. run' \in Runs /\ run'.state = "DONE" /\ run'.points = r.points /\ run'.synced = r.synced
    BY <1>3, <2>1 DEF Runs
  <2>4. QED  BY <2>2, <2>3 DEF WellRun, Running, AtPoint
<1>5. CASE r.index # Len(r.points)
  <2>1. Send(cmds \o GotoPoint(next)) /\ run' = Departed(next, GotoPoint(next))
    BY <1>5 DEF Advance
  <2>2. next.index \in DOMAIN next.points
    BY <1>1, <1>3, <1>5, PointTypes
  <2>3. next.points[next.index] \in MaybePos
    BY <1>3, <2>2, PointTypes DEF MaybePos
  <2> HIDE DEF next
  <2>4. cmds \o GotoPoint(next) \in CommandLists
    BY <1>2, <2>3, PairedTypes DEF GotoPoint
  <2>5. Commanded
    BY <2>1, <2>4, SendType DEF Commanded
  <2>6. PICK s \in {"IDLE", "SLEWING"} : run' = [next EXCEPT !.state = s]
    BY <2>1 DEF Departed
  <2>7. run' \in Runs /\ run'.state = s /\ run'.index = next.index
        /\ run'.points = next.points /\ run'.synced = next.synced
    BY <1>3, <2>6 DEF Runs
  <2>8. QED  BY <1>3, <2>2, <2>5, <2>7 DEF WellRun, AtPoint
<1>6. QED  BY <1>4, <1>5

------------------------------------------------------------------------------
(* A step that leaves the driver's other parts alone.                      *)
LEMMA FrameType ==
    ASSUME TypeOK, WaitsLeft, Commanded, tick' \in Ticks, cam' \in Solves, budget' \in 0..Budget,
           UNCHANGED <<tgt, sel, fwd, cor, held, rep>>
    PROVE  TypeOK' /\ WaitsLeft'
BY DEF TypeOK, WaitsLeft, Commanded

LEMMA RunType ==
    ASSUME AlignedInv, HandleMultiPointAlignment
    PROVE  AlignedInv'
<1> USE DEF InRun
<1>1. tick' \in Ticks /\ UNCHANGED <<cam, tgt, sel, fwd, cor, held, rep, budget, ali>>
  <2>1. [tick EXCEPT !.phase = "align"] \in Ticks
    BY DEF AlignedInv, TypeOK, Ticks
  <2>2. QED
    BY <2>1
    DEF HandleMultiPointAlignment, RunNothing, RunSlewing, RunSettleWait, RunUnsolved, RunFreshWait,
        RunSkipPoint, RunSyncPoint, RunSyncRefused
<1>2. ASSUME Commanded, WellRun(run')
      PROVE  AlignedInv'
  <2>1. TypeOK' /\ WaitsLeft'
    BY <1>1, <1>2, FrameType DEF AlignedInv, TypeOK
  <2>2. QED  BY <1>1, <1>2, <2>1 DEF AlignedInv, WellAligned
<1>3. SendNothing => Commanded
  BY SendNothingType DEF AlignedInv, Commanded
<1>4. run \in Runs /\ WellRun(run) /\ TypeOK
  BY DEF AlignedInv, WellRun
<1>5. 0 \in 0..FreshWait /\ FreshWait \in 0..FreshWait /\ SettleTicks \in 0..SettleTicks
  BY Limits
<1>6. CASE RunNothing
  BY <1>2, <1>3, <1>4, <1>6 DEF RunNothing
<1>7. CASE RunSlewing
  <2>1. run.state = "SLEWING" /\ run.index \in DOMAIN run.points
    BY <1>4, <1>7 DEF RunSlewing, WellRun, Running
  <2>2. /\ Arrived(run) \in Runs /\ Arrived(run).wait > 0
        /\ Arrived(run).index = run.index /\ Arrived(run).points = run.points
        /\ Arrived(run).synced = run.synced
    BY <1>4, <1>5, Limits DEF Arrived, Runs
  <2>3. run' = run \/ run' = Arrived(run)
    BY <1>7 DEF RunSlewing
  <2>4. WellRun(run')
    BY <1>4, <2>1, <2>2, <2>3 DEF WellRun
  <2>5. QED  BY <1>2, <1>3, <1>7, <2>4 DEF RunSlewing
<1>8. CASE RunSettleWait
  <2>1. run.settle - 1 \in 0..SettleTicks
    BY <1>4, <1>8, Limits DEF RunSettleWait, Runs
  <2>2. WellRun(run')
    BY <1>4, <1>8, <2>1 DEF RunSettleWait, WellRun, Running, Runs
  <2>3. QED  BY <1>2, <1>3, <1>8, <2>2 DEF RunSettleWait
<1>9. CASE RunFreshWait
  <2>1. run.wait - 1 \in 0..FreshWait /\ run.wait - 1 > 0
    BY <1>4, <1>9, Limits DEF RunFreshWait, Runs
  <2>2. WellRun(run')
    BY <1>4, <1>9, <2>1 DEF RunFreshWait, WellRun, Running, Runs
  <2>3. QED  BY <1>2, <1>3, <1>9, <2>2 DEF RunFreshWait
<1>10. CASE RunSkipPoint
  <2>1. run.state = "SETTLING" /\ Advance(<<>>, [run EXCEPT !.wait = 0])
    BY <1>10 DEF RunSkipPoint, RunUnsolved
  <2>2. AtPoint([run EXCEPT !.wait = 0]) /\ [run EXCEPT !.wait = 0].state = "SETTLING"
    BY <1>4, <1>5, <2>1 DEF WellRun, Running, AtPoint, Runs
  <2>3. QED  BY <1>2, <1>4, <2>1, <2>2, AdvanceType
<1>11. CASE RunSyncPoint
  <2>1. run.state = "SETTLING" /\ run.index \in DOMAIN run.points
    BY <1>4, <1>11 DEF RunSyncPoint, WellRun, Running
  <2>2. DOMAIN run.points \subseteq Nat
    BY <1>4, <2>1, PointTypes
  <2> DEFINE r == [run EXCEPT !.synced = @ \cup {run.index}]
  <2>3. AtPoint(r) /\ r.state = "SETTLING"
    BY <1>4, <2>1, <2>2 DEF WellRun, AtPoint, Runs
  <2>4. Advance(JustSync(cam.at), r)
    BY <1>11 DEF RunSyncPoint
  <2> HIDE DEF r
  <2>5. QED  BY <1>2, <1>4, <2>3, <2>4, AdvanceType
<1>12. CASE RunSyncRefused
  <2>1. run.state = "SETTLING" /\ Advance(<<>>, run)
    BY <1>12 DEF RunSyncRefused
  <2>2. AtPoint(run)
    BY <1>4, <2>1 DEF WellRun, Running, AtPoint
  <2>3. QED  BY <1>2, <1>4, <2>1, <2>2, AdvanceType
<1>13. QED
  BY <1>6, <1>7, <1>8, <1>9, <1>10, <1>11, <1>12 DEF HandleMultiPointAlignment
------------------------------------------------------------------------------
LEMMA AlignSyncType ==
    ASSUME AlignedInv, HandlePiFinderAlignSync
    PROVE  AlignedInv'
<1> USE DEF Aligning, Answered
<1>1. TypeOK /\ ali \in Aligns /\ ali.seen <= ali.last /\ GiveUpTicks \in Nat
  BY AlignmentAssumption DEF AlignedInv, WellAligned
<1>2. UNCHANGED <<cam, tgt, sel, fwd, cor, held, rep, budget, run>>
  BY DEF HandlePiFinderAlignSync, AlignNothing, AlignUnanswered, AlignAnswered, AlignFirstSeen,
         AlignDeferred, AlignGivenUp, AlignSynced
<1>3. Commanded
  <2>1. ali.at \in MaybePos
    BY <1>1 DEF Aligns, MaybePos
  <2>2. JustSync(ali.at) \in CommandLists
    BY <2>1, CommandListTypes
  <2>3. CASE SendNothing
    BY <1>1, <2>3, SendNothingType DEF Commanded
  <2>4. CASE Send(JustSync(ali.at))
    BY <1>1, <2>2, <2>4, SendType DEF Commanded
  <2>5. QED
    BY <2>3, <2>4
    DEF HandlePiFinderAlignSync, AlignNothing, AlignUnanswered, AlignAnswered, AlignFirstSeen,
        AlignDeferred, AlignGivenUp, AlignSynced
<1>4. tick' \in Ticks
  <2>1. Positions(cam, sky') \in Ticks
    BY <1>1, <1>3, PositionsType DEF TypeOK, Commanded
  <2>2. Running(run) \in BOOLEAN
    BY DEF Running
  <2>3. QED  BY <2>1, <2>2 DEF HandlePiFinderAlignSync, ReadPositions, Ticks
<1>5. WellAligned'
  <2>1. CASE UNCHANGED ali
    BY <1>1, <2>1 DEF WellAligned
  <2>2. CASE AlignFirstSeen
    <3>1. ali' = [ali EXCEPT !.seen = ali.last]
      BY <2>2 DEF AlignFirstSeen
    <3>2. ali' \in Aligns /\ ali'.seen = ali'.last /\ ali'.last \in Nat
      BY <1>1, <3>1 DEF Aligns
    <3>3. QED  BY <3>2 DEF WellAligned
  <2>3. CASE Settled
    <3>1. ali.last \in Nat /\ 0 \in 0..GiveUpTicks + 1
      BY <1>1 DEF Aligns
    <3>2. ali' = [ali EXCEPT !.seen = ali.last, !.waiting = 0]
      BY <2>3 DEF Settled
    <3>3. ali' \in Aligns
      BY <1>1, <3>1, <3>2 DEF Aligns
    <3>4. ali'.seen = ali.last /\ ali'.last = ali.last
      BY <1>1, <3>2 DEF Aligns
    <3>5. QED  BY <3>1, <3>3, <3>4 DEF WellAligned
  <2>4. CASE Waits
    <3>1. Waiting \in 0..GiveUpTicks + 1
      BY <1>1 DEF Waiting, Aligns
    <3>2. ali' \in Aligns /\ ali'.seen = ali.seen /\ ali'.last = ali.last
      BY <1>1, <2>4, <3>1 DEF Waits, Aligns
    <3>3. QED  BY <1>1, <3>2 DEF WellAligned
  <2>5. QED
    BY <2>1, <2>2, <2>3, <2>4
    DEF HandlePiFinderAlignSync, AlignNothing, AlignUnanswered, AlignAnswered, AlignDeferred,
        AlignGivenUp, AlignSynced
<1>6. cam' \in Solves /\ budget' \in 0..Budget
  BY <1>1, <1>2 DEF TypeOK
<1>7. TypeOK' /\ WaitsLeft'
  BY <1>2, <1>3, <1>4, <1>6, FrameType DEF AlignedInv
<1>8. QED  BY <1>2, <1>5, <1>7 DEF AlignedInv

(* A tick that has something to align, and one that has not.               *)
LEMMA AgeingType ==
    ASSUME AlignedInv, Ageing
    PROVE  WellRun(run') /\ WellAligned'
<1>1. WellRun(run')
  BY DEF AlignedInv, Ageing
<1>2. ali \in Aligns /\ GiveUpTicks \in Nat
  BY AlignmentAssumption DEF AlignedInv, WellAligned
<1>3. GiveUpTicks + 1 \in Nat /\ ali.waiting \in 0..GiveUpTicks + 1
  BY <1>2 DEF Aligns
<1>4. PICK w \in 0..GiveUpTicks + 1 : ali' = [ali EXCEPT !.waiting = w]
  <2>1. Older(ali.waiting, GiveUpTicks + 1) \in 0..GiveUpTicks + 1
    BY <1>3, OlderType
  <2>2. QED  BY <1>3, <2>1 DEF Ageing
<1>5. ali' \in Aligns /\ ali'.seen = ali.seen /\ ali'.last = ali.last
  BY <1>2, <1>4 DEF Aligns
<1>6. QED  BY <1>1, <1>5 DEF AlignedInv, WellAligned

LEMMA AlignedTickType ==
    ASSUME AlignedInv, AlignedTick
    PROVE  AlignedInv'
<1>1. CASE TickWithout
  BY <1>1, AgeingType, TickStartType DEF TickWithout, AlignedInv
<1>2. CASE TickWith
  <2>1. [NoTick EXCEPT !.phase = "run"] \in Ticks
    BY DEF NoTick, Ticks, MaybePos
  <2>2. TypeOK' /\ WaitsLeft'
    BY <1>2, <2>1, BeginTickType DEF TickWith, AlignedInv
  <2>3. QED  BY <1>2, <2>2, AgeingType DEF TickWith, AlignedInv
<1>3. CASE RestOfTick /\ UNCHANGED <<run, ali>>
  BY <1>3, TickType DEF Tick, AlignedInv, WellAligned
<1>4. QED  BY <1>1, <1>2, <1>3, RunType, AlignSyncType DEF AlignedTick

(* The operator's own requests.                                            *)
LEMMA RequestsType ==
    ASSUME AlignedInv, (\E points \in PointLists : StartRun(points)) \/ StopRun \/ Align \/ RestartAll
    PROVE  AlignedInv'
<1> USE DEF BetweenTicks
<1>1. TypeOK /\ run \in Runs /\ ali \in Aligns /\ ali.seen <= ali.last
  BY DEF AlignedInv, WellRun, WellAligned
<1>2. sky \in MountStates /\ cam \in Solves /\ ses \in SessionStates /\ tick \in Ticks
  BY <1>1 DEF TypeOK
<1>3. <<>> \in CommandLists
  BY DEF CommandLists
<1>4. ASSUME NEW points \in PointLists, StartRun(points)
      PROVE  AlignedInv'
  <2> DEFINE r == [NoRun EXCEPT !.points = points]
  <2>1. 0 \in 0..SettleTicks /\ 0 \in 0..FreshWait
    BY Limits
  <2>2. r \in Runs /\ r.points = points /\ r.index = 1 /\ r.synced = {}
    BY <2>1 DEF NoRun, Runs
  <2>3. points \in Seq(Pos) /\ points # <<>>
    BY AlignmentAssumption
  <2>4. r.index \in DOMAIN r.points
    BY <2>2, <2>3, EmptySeq, LenProperties
  <2>5. Send(GotoPoint(r)) /\ run' = Departed(r, GotoPoint(r))
    BY <1>4 DEF StartRun
  <2> HIDE DEF r
  <2>6. GotoPoint(r) \in CommandLists
    BY <2>2, <2>4, PointTypes, CommandListTypes DEF GotoPoint, MaybePos
  <2>7. PICK s \in {"IDLE", "SLEWING"} : run' = [r EXCEPT !.state = s]
    BY <2>5 DEF Departed
  <2>8. run' \in Runs /\ run'.state = s /\ run'.index = r.index /\ run'.points = r.points
        /\ run'.synced = r.synced
    BY <2>2, <2>7 DEF Runs
  <2>9. WellRun(run')
    BY <2>2, <2>4, <2>8 DEF WellRun
  <2>10. Commanded /\ budget' \in 0..Budget
    BY <1>1, <1>4, <2>5, <2>6, SendType, SpendType DEF StartRun, Commanded
  <2>11. TypeOK' /\ WaitsLeft'
    BY <1>2, <1>4, <2>10, FrameType DEF StartRun, AlignedInv
  <2>12. QED  BY <1>4, <2>9, <2>11 DEF StartRun, AlignedInv, WellAligned
<1>5. CASE StopRun
  <2>1. sky' \in MountStates /\ cam' \in Solves
    <3>1. [cam EXCEPT !.moved = TRUE] \in Solves
      BY <1>2 DEF Solves
    <3>2. QED  BY <1>1, <1>2, <1>5, <3>1, StoppedType DEF StopRun, Halt
  <2>2. Commanded /\ budget' \in 0..Budget
    BY <1>1, <1>2, <1>3, <1>5, <2>1, SpendType DEF StopRun, Halt, Commanded
  <2>3. TypeOK' /\ WaitsLeft'
    BY <1>2, <1>5, <2>1, <2>2, FrameType DEF StopRun, Halt, AlignedInv
  <2>4. run' \in Runs /\ run'.state = "IDLE" /\ run'.points = run.points /\ run'.synced = run.synced
    BY <1>1, <1>5 DEF StopRun, Runs
  <2>5. WellRun(run')
    BY <2>4 DEF AlignedInv, WellRun, Running
  <2>6. QED  BY <1>5, <2>3, <2>5 DEF StopRun, AlignedInv, WellAligned
<1>6. CASE Align
  <2>1. Commanded /\ budget' \in 0..Budget
    BY <1>1, <1>2, <1>3, <1>6, SpendType DEF Align, Commanded
  <2>2. TypeOK' /\ WaitsLeft'
    BY <1>2, <1>6, <2>1, FrameType DEF Align, AlignedInv
  <2>3. ali' = [ali EXCEPT !.last = @ + 1, !.at = sky.scope] /\ sky.scope \in Pos
    BY <1>2, <1>6 DEF Align, MountStates
  <2>4. ali.last + 1 \in Nat /\ ali.seen <= ali.last + 1
    BY <1>1 DEF Aligns
  <2>5. ali' \in Aligns /\ ali'.seen <= ali'.last
    <3>1. ali' \in Aligns
      BY <1>1, <2>3, <2>4 DEF Aligns
    <3>2. ali'.seen = ali.seen /\ ali'.last = ali.last + 1
      BY <1>1, <2>3 DEF Aligns
    <3>3. QED  BY <2>4, <3>1, <3>2
  <2>6. QED  BY <1>6, <2>2, <2>5 DEF Align, AlignedInv, WellAligned
<1>7. CASE RestartAll
  <2>1. TypeOK' /\ WaitsLeft'
    BY <1>7, InstructType DEF RestartAll, Instruct, AlignedInv
  <2>2. NoRun \in Runs /\ WellRun(NoRun)
    BY Limits DEF NoRun, Runs, WellRun, Running
  <2>3. ali' \in Aligns /\ ali'.seen = 0 /\ ali'.last \in Nat
    <3>1. 0 \in 0..GiveUpTicks + 1
      BY AlignmentAssumption
    <3>2. ali' = [ali EXCEPT !.seen = 0, !.waiting = 0]
      BY <1>7 DEF RestartAll
    <3>3. ali' \in Aligns
      BY <1>1, <3>1, <3>2 DEF Aligns
    <3>4. ali'.seen = 0 /\ ali'.last \in Nat
      BY <1>1, <3>2 DEF Aligns
    <3>5. QED  BY <3>3, <3>4
  <2>4. WellAligned'
    BY <2>3 DEF WellAligned
  <2>5. QED  BY <1>7, <2>1, <2>2, <2>4 DEF RestartAll, AlignedInv
<1>8. QED  BY <1>4, <1>5, <1>6, <1>7

LEMMA AlignedInvariant == AlignedSpec => []AlignedInv
<1>1. AlignedInit => AlignedInv
  <2> SUFFICES ASSUME AlignedInit PROVE AlignedInv
    OBVIOUS
  <2>1. TypeOK /\ WaitsLeft
    BY InitType DEF AlignedInit
  <2>2. WellRun(run)
    BY Limits DEF AlignedInit, NoRun, Runs, WellRun, Running
  <2>3. WellAligned
    BY <2>1, AlignmentAssumption DEF AlignedInit, WellAligned, Aligns, TypeOK, MountStates
  <2>4. QED  BY <2>1, <2>2, <2>3 DEF AlignedInv
<1>2. AlignedInv /\ [AlignedNext /\ Strays]_alignmentVars => AlignedInv'
  <2> SUFFICES ASSUME AlignedInv, [AlignedNext /\ Strays]_alignmentVars PROVE AlignedInv'
    OBVIOUS
  <2>1. CASE UNCHANGED alignmentVars
    BY <2>1 DEF alignmentVars, driverVars, vars, AlignedInv, TypeOK, WaitsLeft, WellAligned
  <2>2. CASE Elsewhere
    <3>1. TypeOK' /\ WaitsLeft'
      BY <2>2, InstructType, WorldType DEF Elsewhere, Instruct, AlignedInv
    <3>2. QED  BY <2>2, <3>1 DEF Elsewhere, AlignedInv, WellAligned
  <2>3. QED
    BY <2>1, <2>2, AlignedTickType, RequestsType DEF AlignedNext
<1>3. QED  BY <1>1, <1>2, PTL DEF AlignedSpec

(* A run is at one of its points, counts only its own points as synced,    *)
(* and waits for a fresh solve no longer than it is meant to; a PiFinder   *)
(* Align waits no longer than it is given, and the driver never claims to  *)
(* have seen one that PiFinder has not made.                               *)
THEOREM AlignedTyped == AlignedSpec => []AlignedTypeOK
<1> DEFINE Recorded == astray \in BOOLEAN
<1>1. AlignedInit => Recorded
  BY DEF AlignedInit
<1>2. Recorded /\ [AlignedNext /\ Strays]_alignmentVars => Recorded'
  BY DEF Strays, alignmentVars
<1>3. AlignedInv /\ Recorded => AlignedTypeOK
  BY DEF AlignedInv, WellRun, WellAligned, Runs, Aligns, Running, AlignedTypeOK
<1> HIDE DEF Recorded
<1>4. QED  BY <1>1, <1>2, <1>3, AlignedInvariant, PTL DEF AlignedSpec
------------------------------------------------------------------------------
(* A question is only ever open in the modes that ask one, here too.       *)
LEMMA AskedKept ==
    ASSUME TypeOK, AskedInMode, AlignedNext
    PROVE  AskedInMode'
<1>1. ASSUME rep'.confirm => rep.confirm, sel'.mode = sel.mode
      PROVE  AskedInMode'
  BY <1>1 DEF AskedInMode
<1>2. CASE UNCHANGED <<sel, rep>>
  BY <1>1, <1>2
<1>3. CASE HandleReposition
  BY <1>3, RepositionCases DEF AskedInMode, DetectionApplies
<1>4. CASE HandleGotoForward
  BY <1>1, <1>4, ForwardBounds
<1>5. CASE HandleAutoCorrect
  BY <1>2, <1>5, CorrectBounds
<1>6. CASE BeginTick
  BY <1>1, <1>6 DEF BeginTick, TypeOK, Detections
<1>7. CASE Restart
  BY <1>7 DEF Restart, NoReposition, AskedInMode
<1>8. ASSUME NEW mode \in Modes, SetMode(mode)
      PROVE  AskedInMode'
  <2>1. ~rep'.confirm
    BY <1>8 DEF SetMode, RepositionReset, TypeOK, Detections
  <2>2. QED  BY <2>1 DEF AskedInMode
<1>9. ASSUME NEW action \in Actions, SetAction(action)
      PROVE  AskedInMode'
  BY <1>1, <1>9 DEF SetAction, TypeOK, Settings
<1>10. ASSUME NEW hold \in BOOLEAN, SetHold(hold)
       PROVE  AskedInMode'
  BY <1>1, <1>10 DEF SetHold, TypeOK, Settings
<1>11. CASE ConfirmYes \/ ConfirmNo
  <2>1. ~rep'.confirm
    BY <1>11 DEF ConfirmYes, ConfirmNo, TypeOK, Detections
  <2>2. QED  BY <2>1 DEF AskedInMode
<1>12. CASE Reconnect
  BY <1>1, <1>12 DEF Reconnect, TypeOK, Settings
<1>13. CASE Ask
  BY <1>8, <1>9, <1>10, <1>11, <1>12, <1>13 DEF Ask
<1>14. CASE AbortMount \/ SomePushTo \/ World
  BY <1>2, <1>14
  DEF AbortMount, Halt, SomePushTo, PushTo, World, Arrive, Solve, Expire, Publish, ExternalMove,
      Slip, Outside
<1>15. CASE HandleMultiPointAlignment \/ HandlePiFinderAlignSync
  BY <1>2, <1>15
  DEF HandleMultiPointAlignment, RunNothing, RunSlewing, RunSettleWait, RunUnsolved, RunFreshWait,
      RunSkipPoint, RunSyncPoint, RunSyncRefused, InRun, HandlePiFinderAlignSync, AlignNothing,
      AlignUnanswered, AlignAnswered, AlignFirstSeen, AlignDeferred, AlignGivenUp, AlignSynced,
      Answered, Aligning
<1>16. CASE (\E points \in PointLists : StartRun(points)) \/ StopRun \/ Align
  BY <1>2, <1>16 DEF StartRun, StopRun, Halt, Align
<1>17. CASE RestOfTick
  BY <1>2, <1>3, <1>4, <1>5, <1>17 DEF RestOfTick, SkipDetection, JustWatch
<1>18. QED
  BY <1>6, <1>7, <1>13, <1>14, <1>15, <1>16, <1>17
  DEF AlignedNext, AlignedTick, TickWithout, TickWith, TickStart, RestartAll, Elsewhere

------------------------------------------------------------------------------
(* What happens while nothing but a run moves the mount.                   *)

(* A step that changes nothing a run goes by.                              *)
Calm ==
    /\ UNCHANGED <<run, cam>> /\ sky'.goal = sky.goal /\ sky'.mount = sky.mount
    /\ tick'.phase = tick.phase \/ tick'.phase \in {"idle", "detect", "act"}

LEMMA PassiveAsk ==
    ASSUME TypeOK, AskedInMode, Passive, Passive', Ask
    PROVE  UNCHANGED <<sky, cam, tick>> /\ out' = <<>>
<1>1. ASSUME NEW mode \in Modes, SetMode(mode)
      PROVE  UNCHANGED <<sky, cam, tick>> /\ out' = <<>>
  <2>1. mode # "GOTO"
    BY <1>1 DEF SetMode, TypeOK, Settings, Passive
  <2>2. Send(<<>>)
    BY <1>1, <2>1 DEF SetMode, EntryCommands
  <2>3. QED  BY <1>1, <2>2 DEF SetMode, BetweenTicks, Send, ObeyAll
<1>2. ~ConfirmYes /\ ~ConfirmNo
  BY DEF ConfirmYes, ConfirmNo, Answering, AskedInMode, Passive
<1>3. QED
  BY <1>1, <1>2 DEF Ask, SetAction, SetHold, Reconnect, BetweenTicks, SendNothing

LEMMA PassiveTick ==
    ASSUME TypeOK, Passive, RestOfTick
    PROVE  UNCHANGED <<sky, cam, sel>> /\ out' = <<>> /\ tick'.phase \in {"idle", "act"}
<1>1. ~HandleReposition
  BY RepositionCases DEF DetectionApplies, Passive
<1>2. ~HandleGotoForward /\ ~HandleAutoCorrect
  BY ForwardBounds, CorrectBounds DEF Passive
<1>3. CASE SkipDetection
  BY <1>3 DEF SkipDetection, PassOn, TypeOK, Ticks
<1>4. CASE JustWatch
  BY <1>4 DEF JustWatch, NoTick
<1>5. QED  BY <1>1, <1>2, <1>3, <1>4 DEF RestOfTick

(* The outside world, and the operator's abort, move the mount.            *)
MountMoved ==
    /\ Arrive \/ Solve \/ Expire \/ AbortMount \/ \E p \in Places : ExternalMove(p)
    /\ UNCHANGED run

(* A step in the modes that leave the mount alone: only the run itself     *)
(* commands it while it is under way.                                      *)
LEMMA PassiveSteps ==
    ASSUME AlignedInv, AskedInMode, Passive, Passive', AlignedNext
    PROVE  /\ Running(run) /\ tick.phase # "run" => out' = <<>>
           /\ \/ Calm \/ TickWith \/ HandleMultiPointAlignment \/ MountMoved
              \/ \E points \in PointLists : StartRun(points)
              \/ ~Running(run')
<1>1. TypeOK
  BY DEF AlignedInv
<1>2. CASE TickWithout
  BY <1>2 DEF TickWithout, NothingToAlign, Ageing
<1>3. CASE TickWith
  BY <1>3 DEF TickWith, BeginTick, BootCommands, Bootstrapping, Passive
<1>4. CASE HandleMultiPointAlignment
  BY <1>4
  DEF HandleMultiPointAlignment, RunNothing, RunSlewing, RunSettleWait, RunUnsolved, RunFreshWait,
      RunSkipPoint, RunSyncPoint, RunSyncRefused, InRun
<1>5. CASE HandlePiFinderAlignSync
  <2>1. UNCHANGED <<cam, run>>
    BY <1>5
    DEF HandlePiFinderAlignSync, AlignNothing, AlignUnanswered, AlignAnswered, AlignFirstSeen,
        AlignDeferred, AlignGivenUp, AlignSynced, Answered, Aligning
  <2>2. CASE ~Running(run)
    BY <2>1, <2>2
  <2>3. CASE Running(run)
    <3>1. SendNothing
      BY <1>5, <2>3
      DEF HandlePiFinderAlignSync, AlignNothing, AlignUnanswered, AlignAnswered, AlignFirstSeen,
          AlignDeferred, AlignGivenUp, AlignSynced, MountBusy
    <3>2. tick'.phase = "detect"
      BY <1>5 DEF HandlePiFinderAlignSync, ReadPositions, Positions, NoTick
    <3>3. QED  BY <2>1, <3>1, <3>2 DEF SendNothing, Calm
  <2>4. QED  BY <2>2, <2>3
<1>6. CASE RestOfTick /\ UNCHANGED <<run, ali>>
  BY <1>1, <1>6, PassiveTick DEF Calm
<1>7. ASSUME NEW points \in PointLists, StartRun(points)
      PROVE  ~Running(run)
  BY <1>7 DEF StartRun
<1>8. CASE StopRun
  <2>1. run'.state = "IDLE"
    BY <1>8 DEF StopRun, AlignedInv, WellRun, Runs
  <2>2. QED  BY <1>8, <2>1 DEF StopRun, Halt, Running
<1>9. CASE Align
  BY <1>9 DEF Align, BetweenTicks, Calm
<1>10. CASE RestartAll
  BY <1>10 DEF RestartAll, Restart, NoRun, Running
<1>11. CASE Elsewhere
  <2>1. CASE Ask
    BY <1>1, <1>11, <2>1, PassiveAsk DEF Elsewhere, Calm
  <2>2. CASE SomePushTo \/ Publish
    BY <1>11, <2>2 DEF Elsewhere, SomePushTo, PushTo, Publish, BetweenTicks, Calm
  <2>3. ASSUME NEW p \in Places, Slip(p)
        PROVE  Calm /\ out' = <<>>
    BY <1>1, <1>11, <2>3 DEF Elsewhere, Slip, BetweenTicks, Calm, TypeOK, MountStates
  <2>4. CASE MountMoved
    BY <2>4 DEF MountMoved, Arrive, Solve, Expire, Outside, AbortMount, Halt, ExternalMove
  <2>5. QED  BY <1>11, <2>1, <2>2, <2>3, <2>4 DEF Elsewhere, World, MountMoved
<1>12. QED
  BY <1>2, <1>3, <1>4, <1>5, <1>6, <1>7, <1>8, <1>9, <1>10, <1>11 DEF AlignedNext, AlignedTick
(* While a run is under way in these modes, it alone syncs the mount.      *)
THEOREM RunSyncsAloneAlways == AlignedSpec => RunSyncsAlone
<1>1. AlignedInit => AskedInMode
  BY DEF AlignedInit, Init, NoReposition, AskedInMode
<1>2. AlignedInv /\ AskedInMode /\ [AlignedNext /\ Strays]_alignmentVars => AskedInMode'
  <2>1. UNCHANGED alignmentVars /\ AskedInMode => AskedInMode'
    BY DEF alignmentVars, driverVars, vars, AskedInMode
  <2>2. QED  BY <2>1, AskedKept DEF AlignedInv
<1>3. AlignedInv /\ AskedInMode /\ [AlignedNext /\ Strays]_alignmentVars =>
          [Running(run) /\ Passive /\ Passive' /\ Sent("SYNC") # {} => tick.phase = "run"]_alignmentVars
  <2> SUFFICES ASSUME AlignedInv, AskedInMode, AlignedNext, Running(run), Passive, Passive',
                      tick.phase # "run"
               PROVE  Sent("SYNC") = {}
    OBVIOUS
  <2>1. out' = <<>>
    BY PassiveSteps
  <2>2. QED  BY <2>1 DEF Sent
<1>4. QED  BY <1>1, <1>2, <1>3, AlignedInvariant, PTL DEF AlignedSpec, RunSyncsAlone

(* Held, and with no run to finish, the poll timer leaves the mount alone: *)
(* the alignment handlers keep the hold too.                               *)
THEOREM HeldAligningQuietAlways == AlignedSpec => HeldAligningQuiet
<1>1. AlignedInv /\ [AlignedNext /\ Strays]_alignmentVars =>
          [sel.hold /\ (ses.didInit \/ sel.mode = "VERIFY") /\ ~Running(run) /\ TickStep =>
              out' = <<>>]_alignmentVars
  <2> SUFFICES ASSUME AlignedInv, AlignedNext, sel.hold, ses.didInit \/ sel.mode = "VERIFY",
                      ~Running(run), TickStep
               PROVE  out' = <<>>
    OBVIOUS
  <2>1. TypeOK
    BY DEF AlignedInv
  <2>2. CASE BeginTick
    BY <2>2 DEF BeginTick, BootCommands, Bootstrapping
  <2>3. CASE HandleMultiPointAlignment
    BY <2>3
    DEF HandleMultiPointAlignment, RunNothing, RunSlewing, RunSettleWait, RunUnsolved, RunFreshWait,
        RunSkipPoint, RunSyncPoint, RunSyncRefused, InRun, Running, SendNothing
  <2>4. CASE HandlePiFinderAlignSync
    BY <2>4
    DEF HandlePiFinderAlignSync, AlignNothing, AlignUnanswered, AlignAnswered, AlignFirstSeen,
        AlignDeferred, AlignGivenUp, AlignSynced, Answered, LooksForAlign, SendNothing
  <2>5. CASE RestOfTick
    <3>1. ~HandleReposition
      BY <2>1, RepositionCases DEF DetectionApplies
    <3>2. ~HandleGotoForward /\ ~HandleAutoCorrect
      BY <2>1, ForwardBounds, CorrectBounds
    <3>3. QED  BY <2>5, <3>1, <3>2 DEF RestOfTick, SkipDetection, JustWatch
  <2>6. CASE Restart
    BY <2>6 DEF Restart
  <2>7. ~(\E points \in PointLists : StartRun(points)) /\ ~Align /\ ~StopRun
    BY DEF StartRun, Align, StopRun, BetweenTicks, TickStep
  <2>8. ~Ask /\ ~AbortMount /\ ~SomePushTo /\ ~World
    <3>1. ~Ask
      BY DEF Ask, SetMode, SetAction, SetHold, ConfirmYes, ConfirmNo, Answering, Reconnect,
             BetweenTicks, TickStep
    <3>2. ~AbortMount /\ ~SomePushTo
      BY DEF AbortMount, SomePushTo, PushTo, BetweenTicks, TickStep
    <3>3. ~World
      BY DEF World, Arrive, Solve, Expire, Publish, ExternalMove, Slip, Outside, BetweenTicks,
             TickStep
    <3>4. QED  BY <3>1, <3>2, <3>3
  <2>9. QED
    BY <2>2, <2>3, <2>4, <2>5, <2>6, <2>7, <2>8
    DEF AlignedNext, AlignedTick, TickWithout, TickWith, TickStart, RestartAll, Elsewhere
<1>2. QED  BY <1>1, AlignedInvariant, PTL DEF AlignedSpec, HeldAligningQuiet

------------------------------------------------------------------------------
(* The mode stays as it is, or the modes that move the mount are not used: *)
(* a slew of such a mode's own handler may outlast the mode.               *)
ModeKept == "mode" \notin Events \/ Modes \subseteq {"OFF", "VERIFY"}

LEMMA PassiveKept ==
    ASSUME TypeOK, ModeKept, Passive', [AlignedNext /\ Strays]_alignmentVars
    PROVE  Passive
<1>1. ASSUME sel'.mode = sel.mode
      PROVE  Passive
  BY <1>1 DEF Passive
<1>2. CASE UNCHANGED sel
  BY <1>1, <1>2
<1>3. ASSUME NEW mode \in Modes, SetMode(mode)
      PROVE  Passive
  BY <1>3 DEF SetMode, Spend, ModeKept, TypeOK, Settings, Passive
<1>4. CASE Ask
  <2>1. ASSUME NEW action \in Actions, SetAction(action)
        PROVE  Passive
    BY <1>1, <2>1 DEF SetAction, TypeOK, Settings
  <2>2. ASSUME NEW hold \in BOOLEAN, SetHold(hold)
        PROVE  Passive
    BY <1>1, <2>2 DEF SetHold, TypeOK, Settings
  <2>3. CASE ConfirmYes \/ ConfirmNo
    BY <1>2, <2>3 DEF ConfirmYes, ConfirmNo, Answering
  <2>4. CASE Reconnect
    BY <1>1, <2>4 DEF Reconnect, TypeOK, Settings
  <2>5. QED  BY <1>3, <1>4, <2>1, <2>2, <2>3, <2>4 DEF Ask
<1>5. CASE Restart
  BY <1>1, <1>5 DEF Restart, TypeOK, Settings
<1>6. CASE AbortMount \/ SomePushTo \/ World
  BY <1>2, <1>6
  DEF AbortMount, Halt, SomePushTo, PushTo, World, Arrive, Solve, Expire, Publish, ExternalMove,
      Slip, Outside
<1>7. CASE HandleMultiPointAlignment \/ HandlePiFinderAlignSync
  BY <1>2, <1>7
  DEF HandleMultiPointAlignment, RunNothing, RunSlewing, RunSettleWait, RunUnsolved, RunFreshWait,
      RunSkipPoint, RunSyncPoint, RunSyncRefused, InRun, HandlePiFinderAlignSync, AlignNothing,
      AlignUnanswered, AlignAnswered, AlignFirstSeen, AlignDeferred, AlignGivenUp, AlignSynced,
      Answered, Aligning
<1>8. CASE (\E points \in PointLists : StartRun(points)) \/ StopRun \/ Align
  BY <1>2, <1>8 DEF StartRun, StopRun, Halt, Align
<1>9. CASE RestOfTick
  BY <1>2, <1>9, RepositionCases, ForwardBounds, CorrectBounds
  DEF RestOfTick, SkipDetection, JustWatch
<1>10. CASE BeginTick
  BY <1>2, <1>10 DEF BeginTick
<1>11. CASE UNCHANGED alignmentVars
  BY <1>2, <1>11 DEF alignmentVars, driverVars, vars
<1>12. QED
  BY <1>4, <1>5, <1>6, <1>7, <1>8, <1>9, <1>10, <1>11
  DEF AlignedNext, AlignedTick, TickWithout, TickWith, TickStart, RestartAll, Elsewhere
------------------------------------------------------------------------------
(* A tick looks at runs and Aligns by a solve at least one tick old: the   *)
(* world does not act between the tick's beginning and that.               *)
AgedInTick == tick.phase \in {"run", "align"} => cam.age >= 1

(* SETTLING means that no slew is under way, ...                           *)
RunRests == Passive /\ run.state = "SETTLING" => ~MountSlewing

(* ... and a solve from before its end ages with the settle ticks.         *)
RunAged ==
    \/ cam.age = Stale
    \/ cam.age + run.settle >= SettleTicks + (IF tick.phase = "run" THEN 2 ELSE 1)
RunSolveAges == Passive /\ run.state = "SETTLING" /\ cam.moved => RunAged

RunRestInv == AskedInMode /\ AgedInTick /\ RunRests /\ RunSolveAges

LEMMA BeginAges ==
    ASSUME TypeOK, BeginTick
    PROVE  /\ cam'.age >= 1 /\ cam'.moved = cam.moved
           /\ cam.age = Stale => cam'.age = Stale
           /\ cam'.age = Stale \/ cam'.age = cam.age + 1
<1>1. cam.age \in 0..Stale /\ Stale \in Nat /\ Stale > 0
  BY Limits DEF TypeOK, Solves, Stale
<1>2. cam'.age = Older(cam.age, Stale) /\ cam'.moved = cam.moved
  BY DEF BeginTick, TypeOK, Solves
<1>3. QED  BY <1>1, <1>2 DEF Older

LEMMA AgedInTickKept ==
    ASSUME AlignedInv, AgedInTick, AlignedNext
    PROVE  AgedInTick'
<1>1. TypeOK
  BY DEF AlignedInv
<1>2. ASSUME tick'.phase \notin {"run", "align"}
      PROVE  AgedInTick'
  BY <1>2 DEF AgedInTick
<1>3. ASSUME tick.phase = "idle", UNCHANGED tick
      PROVE  AgedInTick'
  BY <1>3 DEF AgedInTick
<1>4. CASE TickWithout
  BY <1>2, <1>4 DEF TickWithout, TickStart, Positions, NoTick
<1>5. CASE TickWith
  BY <1>1, <1>5, BeginAges DEF TickWith, AgedInTick
<1>6. CASE HandleMultiPointAlignment
  <2>1. tick.phase = "run" /\ UNCHANGED cam
    BY <1>6
    DEF HandleMultiPointAlignment, RunNothing, RunSlewing, RunSettleWait, RunUnsolved, RunFreshWait,
        RunSkipPoint, RunSyncPoint, RunSyncRefused, InRun
  <2>2. QED  BY <2>1 DEF AgedInTick
<1>7. CASE HandlePiFinderAlignSync
  <2>1. tick'.phase = "detect"
    BY <1>7 DEF HandlePiFinderAlignSync, ReadPositions, Positions, NoTick
  <2>2. QED  BY <1>2, <2>1
<1>8. CASE RestOfTick
  <2>1. tick'.phase \in {"idle", "act"}
    <3>1. CASE HandleReposition
      <4>1. Handled \/ PassOn
        BY <3>1
        DEF HandleReposition, PendingWait, TimeoutBlind, TimeoutRevert, NoPositions,
            ExternalSettling, ExternalAwaitSolve, AdoptReposition, OwnMotionOrStale, ConfirmedGood,
            NotSuspicious, AskOperator, Classifying
      <4>2. QED  BY <1>1, <4>1 DEF Handled, PassOn, NoTick, TypeOK, Ticks
    <3>2. CASE SkipDetection \/ JustWatch
      BY <1>1, <3>2 DEF SkipDetection, JustWatch, PassOn, NoTick, TypeOK, Ticks
    <3>3. QED  BY <1>1, <1>8, <3>1, <3>2, ForwardBounds, CorrectBounds DEF RestOfTick
  <2>2. QED  BY <1>2, <2>1
<1>9. CASE RestartAll
  BY <1>2, <1>9 DEF RestartAll, Restart, NoTick
<1>10. CASE (\E points \in PointLists : StartRun(points)) \/ StopRun \/ Align \/ AbortMount \/ SomePushTo
  BY <1>3, <1>10 DEF StartRun, StopRun, Align, AbortMount, SomePushTo, PushTo, BetweenTicks
<1>11. CASE Ask
  BY <1>3, <1>11
  DEF Ask, SetMode, SetAction, SetHold, ConfirmYes, ConfirmNo, Answering, Reconnect, BetweenTicks
<1>12. CASE World
  <2>1. CASE Arrive \/ Solve \/ Expire
    <3>1. tick.phase \in WorldPhases /\ UNCHANGED tick
      BY <2>1 DEF Arrive, Solve, Expire, Outside
    <3>2. QED  BY <1>2, <3>1, SetAssumption
  <2>2. CASE Publish
    BY <2>2 DEF Publish, AgedInTick
  <2>3. ASSUME NEW p \in Places, ExternalMove(p) \/ Slip(p)
        PROVE  AgedInTick'
    BY <1>3, <2>3 DEF ExternalMove, Slip, BetweenTicks
  <2>4. QED  BY <1>12, <2>1, <2>2, <2>3 DEF World
<1>13. QED
  BY <1>4, <1>5, <1>6, <1>7, <1>8, <1>9, <1>10, <1>11, <1>12
  DEF AlignedNext, AlignedTick, Elsewhere

(* The run settles where its slew ended, and a tick of it takes a tick.    *)
LEMMA RunSettles ==
    ASSUME AlignedInv, HandleMultiPointAlignment, run'.state = "SETTLING"
    PROVE  /\ UNCHANGED <<sky, cam, sel>> /\ tick.phase = "run" /\ tick'.phase = "align"
           /\ run'.index = run.index /\ run'.points = run.points
           /\ \/ run.state = "SLEWING" /\ ~MountSlewing /\ run'.settle = SettleTicks
              \/ run.state = "SETTLING" /\ run'.settle + 1 >= run.settle
<1>1. run \in Runs /\ tick \in Ticks
  BY DEF AlignedInv, WellRun, TypeOK
<1>2. ASSUME NEW cmds, NEW r, Advance(cmds, r)
      PROVE  run'.state # "SETTLING" \/ r \notin Runs
  BY <1>2 DEF Advance, Departed, Runs
<1>3. ~RunSyncPoint
  <2>1. run.synced \cup {run.index} \in SUBSET Nat
    BY <1>1 DEF Runs
  <2>2. [run EXCEPT !.synced = @ \cup {run.index}] \in Runs
    BY <1>1, <2>1 DEF Runs
  <2>3. QED  BY <1>2, <2>2 DEF RunSyncPoint
<1>4. ~RunSkipPoint
  <2>1. [run EXCEPT !.wait = 0] \in Runs
    BY <1>1, Limits DEF Runs
  <2>2. QED  BY <1>2, <2>1 DEF RunSkipPoint
<1>5. ~RunSyncRefused
  BY <1>1, <1>2 DEF RunSyncRefused
<1>6. ~RunNothing
  BY DEF RunNothing, InRun
<1>7. UNCHANGED <<sky, cam, sel>> /\ tick.phase = "run"
  BY <1>3, <1>4, <1>5, <1>6
  DEF HandleMultiPointAlignment, RunSlewing, RunSettleWait, RunUnsolved, RunFreshWait, InRun,
      SendNothing
<1>8. tick'.phase = "align"
  BY <1>1, <1>3, <1>4, <1>5, <1>6
  DEF HandleMultiPointAlignment, RunSlewing, RunSettleWait, RunUnsolved, RunFreshWait, InRun, Ticks
<1>9. CASE RunSlewing
  <2>1. ~MountSlewing /\ run' = Arrived(run) /\ run.state = "SLEWING"
    BY <1>9 DEF RunSlewing, InRun
  <2>2. run'.index = run.index /\ run'.points = run.points /\ run'.settle = SettleTicks
    BY <1>1, <2>1 DEF Arrived, Runs
  <2>3. QED  BY <1>7, <1>8, <2>1, <2>2
<1>10. CASE RunSettleWait
  <2>1. run.state = "SETTLING" /\ run' = [run EXCEPT !.settle = @ - 1]
    BY <1>10 DEF RunSettleWait, InRun
  <2>2. run'.index = run.index /\ run'.points = run.points /\ run'.settle = run.settle - 1
    BY <1>1, <2>1 DEF Runs
  <2>3. run.settle \in Int
    BY <1>1, Limits DEF Runs
  <2>4. QED  BY <1>7, <1>8, <2>1, <2>2, <2>3
<1>11. CASE RunFreshWait
  <2>1. run.state = "SETTLING" /\ run' = [run EXCEPT !.wait = @ - 1]
    BY <1>11 DEF RunFreshWait, RunUnsolved, InRun
  <2>2. run'.index = run.index /\ run'.points = run.points /\ run'.settle = run.settle
    BY <1>1, <2>1 DEF Runs
  <2>3. run.settle \in Int
    BY <1>1, Limits DEF Runs
  <2>4. QED  BY <1>7, <1>8, <2>1, <2>2, <2>3
<1>12. QED
  BY <1>3, <1>4, <1>5, <1>6, <1>9, <1>10, <1>11 DEF HandleMultiPointAlignment
LEMMA RunRestKept ==
    ASSUME AlignedInv, RunRestInv, Passive, Passive', AlignedNext
    PROVE  RunRests' /\ RunSolveAges'
<1>1. TypeOK /\ run \in Runs
  BY DEF AlignedInv, WellRun
<1>2. cam.age \in Nat /\ Stale = MaxAge + 1 /\ run.settle \in Nat
  BY <1>1, Limits DEF TypeOK, Solves, Stale, Runs
<1>3. ASSUME run'.state # "SETTLING"
      PROVE  RunRests' /\ RunSolveAges'
  BY <1>3 DEF RunRests, RunSolveAges
<1>4. CASE Calm
  BY <1>2, <1>4, Limits
  DEF Calm, RunRestInv, RunRests, RunSolveAges, RunAged, MountSlewing, Stale
<1>5. CASE TickWith
  <2>1. UNCHANGED <<sky, run>> /\ tick.phase = "idle"
    BY <1>5
    DEF TickWith, BeginTick, BootCommands, Bootstrapping, Passive, ObeyAll, Ageing
  <2>2. RunRests'
    BY <2>1 DEF RunRestInv, RunRests, MountSlewing
  <2>3. ASSUME run.state = "SETTLING", cam.moved
        PROVE  RunAged'
    <3>1. cam.age = Stale \/ cam.age + run.settle >= SettleTicks + 1
      BY <2>1, <2>3 DEF RunRestInv, RunSolveAges, RunAged
    <3>2. cam'.age = Stale \/ (cam'.age = cam.age + 1 /\ cam.age + run.settle >= SettleTicks + 1)
      BY <1>1, <1>5, <3>1, BeginAges DEF TickWith
    <3>3. tick'.phase = "run"
      BY <1>5 DEF TickWith, NoTick
    <3>4. QED  BY <1>2, <2>1, <3>2, <3>3, Limits DEF RunAged, Stale
  <2>4. cam'.moved = cam.moved
    BY <1>1, <1>5, BeginAges DEF TickWith
  <2>5. QED  BY <2>1, <2>2, <2>3, <2>4 DEF RunSolveAges
<1>6. CASE HandleMultiPointAlignment
  <2> SUFFICES ASSUME run'.state = "SETTLING"
               PROVE  RunRests' /\ RunSolveAges'
    BY <1>3
  <2>1. ~MountSlewing'
    BY <1>6, RunSettles DEF RunRestInv, RunRests, MountSlewing
  <2>2. run'.settle \in Nat
    <3>1. AlignedInv'
      BY <1>6, RunType
    <3>2. QED  BY <3>1, Limits DEF AlignedInv, WellRun, Runs
  <2>3. cam.moved => RunAged'
    <3>1. CASE run'.settle = SettleTicks
      <4>1. cam.age >= 1
        BY <1>6, RunSettles DEF RunRestInv, AgedInTick
      <4>2. QED  BY <1>2, <1>6, <3>1, <4>1, RunSettles, Limits DEF RunAged
    <3>2. CASE run.state = "SETTLING" /\ run'.settle + 1 >= run.settle
      <4>1. cam.moved => cam.age = Stale \/ cam.age + run.settle >= SettleTicks + 2
        BY <1>6, <3>2, RunSettles DEF RunRestInv, RunSolveAges, RunAged
      <4>2. QED  BY <1>2, <1>6, <2>2, <3>2, <4>1, RunSettles, Limits DEF RunAged, Stale
    <3>3. QED  BY <1>6, <3>1, <3>2, RunSettles
  <2>4. UNCHANGED cam
    BY <1>6, RunSettles
  <2>5. QED  BY <2>1, <2>3, <2>4 DEF RunRests, RunSolveAges
<1>7. CASE MountMoved
  <2>1. run' = run
    BY <1>7 DEF MountMoved
  <2> SUFFICES ASSUME run.state = "SETTLING"
               PROVE  RunRests' /\ RunSolveAges'
    BY <1>3, <2>1
  <2>2. ~MountSlewing /\ (cam.moved => RunAged)
    BY DEF RunRestInv, RunRests, RunSolveAges
  <2>3. ~Arrive
    BY <2>2 DEF Arrive
  <2>4. CASE Solve
    BY <2>2, <2>4 DEF Solve, RunRests, RunSolveAges, MountSlewing
  <2>5. CASE Expire
    <3>1. cam'.age = Stale
      BY <1>1, <2>5 DEF Expire, TypeOK, Solves
    <3>2. UNCHANGED sky
      BY <2>5 DEF Expire
    <3>3. QED  BY <2>2, <3>1, <3>2 DEF RunRests, RunSolveAges, RunAged, MountSlewing, Stale
  <2>6. CASE AbortMount
    BY <2>1, <2>2, <2>6
    DEF AbortMount, BetweenTicks, Halt, RunRests, RunSolveAges, RunAged, MountSlewing, Stale
  <2>7. ASSUME NEW p \in Places, ExternalMove(p)
        PROVE  RunRests' /\ RunSolveAges'
    <3>1. sky'.goal = None
      BY <1>1, <2>7 DEF ExternalMove, StoppedAt, TypeOK, MountStates
    <3>2. UNCHANGED <<cam, tick>>
      BY <2>7 DEF ExternalMove, BetweenTicks
    <3>3. QED  BY <2>1, <2>2, <3>1, <3>2 DEF RunRests, RunSolveAges, RunAged, MountSlewing, Stale
  <2>8. QED  BY <1>7, <2>3, <2>4, <2>5, <2>6, <2>7 DEF MountMoved
<1>8. ASSUME NEW points \in PointLists, StartRun(points)
      PROVE  run'.state # "SETTLING"
  BY <1>8 DEF StartRun, Departed, NoRun
<1>9. QED
  BY <1>3, <1>4, <1>5, <1>6, <1>7, <1>8, PassiveSteps DEF RunRestInv, Running

LEMMA RunRestInvariant ==
    ASSUME ModeKept
    PROVE  AlignedSpec => []RunRestInv
<1>1. AlignedInit => RunRestInv
  BY DEF AlignedInit, Init, NoReposition, NoTick, NoRun, RunRestInv, AskedInMode, AgedInTick,
         RunRests, RunSolveAges
<1>2. AlignedInv /\ RunRestInv /\ [AlignedNext /\ Strays]_alignmentVars => RunRestInv'
  <2> SUFFICES ASSUME AlignedInv, RunRestInv, [AlignedNext /\ Strays]_alignmentVars PROVE RunRestInv'
    OBVIOUS
  <2>1. CASE UNCHANGED alignmentVars
    BY <2>1
    DEF alignmentVars, driverVars, vars, RunRestInv, AskedInMode, AgedInTick, RunRests, RunSolveAges, RunAged,
        Passive, MountSlewing, Stale
  <2>2. CASE AlignedNext
    <3>1. AskedInMode' /\ AgedInTick'
      BY <2>2, AskedKept, AgedInTickKept DEF AlignedInv, RunRestInv
    <3>2. CASE Passive'
      <4>1. Passive
        BY <3>2, PassiveKept DEF AlignedInv
      <4>2. QED  BY <2>2, <3>1, <3>2, <4>1, RunRestKept DEF RunRestInv
    <3>3. CASE ~Passive'
      BY <3>1, <3>3 DEF RunRestInv, RunRests, RunSolveAges
    <3>4. QED  BY <3>2, <3>3
  <2>3. QED  BY <2>1, <2>2
<1>3. QED  BY <1>1, <1>2, AlignedInvariant, PTL DEF AlignedSpec

(* A point is synced by a solve made after the mount came to it, when a    *)
(* solve is forgotten before the settle time and one tick more are over.   *)
THEOREM RunSolvedAlways ==
    ASSUME ModeKept, MaxAge <= SettleTicks + 1
    PROVE  AlignedSpec => []RunSolved
<1>1. AlignedInv /\ RunRestInv => RunSolved
  <2> SUFFICES ASSUME AlignedInv, RunRestInv, Passive, tick.phase = "run",
                      run.state = "SETTLING", run.settle = 0, cam.moved
               PROVE  ~Fresh
    BY DEF RunSolved
  <2>1. cam.age \in Nat
    BY Limits DEF AlignedInv, TypeOK, Solves, Stale
  <2>2. cam.age = Stale \/ cam.age >= SettleTicks + 2
    BY <2>1 DEF RunRestInv, RunSolveAges, RunAged
  <2>3. QED  BY <2>1, <2>2, Limits DEF Fresh, Stale
<1>2. QED  BY <1>1, AlignedInvariant, RunRestInvariant, PTL
------------------------------------------------------------------------------
(* A run whose mount is left alone is on its way to its point, or the      *)
(* mount is at it.                                                         *)
RunOnPoint ==
    Running(run) /\ ~astray =>
        /\ Passive
        /\ run.state = "SLEWING" =>
              \/ sky.goal = run.points[run.index]
              \/ sky.goal = None /\ sky.mount = run.points[run.index]
        /\ run.state = "SETTLING" => sky.goal = None /\ sky.mount = run.points[run.index]

(* A Goto that is sent, alone or after a Sync, takes the mount there.      *)
LEMMA GotoAims ==
    ASSUME TypeOK, NEW p \in MaybePos, NEW q \in Pos \ Unreachable, ~Refused(q)
    PROVE  /\ ObeyAll(sky, JustTrack(q)).goal = q
           /\ ObeyAll(sky, <<>> \o JustTrack(q)).goal = q
           /\ ObeyAll(sky, JustSync(p) \o JustTrack(q)).goal = q
<1>1. Coerced(q) = q
  BY PosAssumption DEF Coerced
<1>2. \A m \in MountStates : Obey(m, Track(q)).goal = q
  BY <1>1 DEF Obey, Track, MountStates
<1>3. Obey(sky, Sync(p)) \in MountStates
  <2>1. Obey(sky, Sync(p)) = [sky EXCEPT !.mount = Coerced(p), !.rejected = FALSE]
    BY DEF Obey, Sync
  <2>2. Coerced(p) \in Pos
    BY PosAssumption DEF Coerced, MaybePos
  <2>3. QED  BY <2>1, <2>2 DEF TypeOK, MountStates
<1>4. JustTrack(q) = <<Track(q)>> /\ (JustSync(p) = <<>> \/ JustSync(p) = <<Sync(p)>>)
  BY DEF JustTrack, JustSync
<1>5. ObeyAll(sky, <<Track(q)>>).goal = q
  BY <1>2 DEF ObeyAll, TypeOK
<1>6. Sync(p) \in Commands /\ Track(q) \in Commands
  BY DEF Sync, Track, Commands, MaybePos
<1>7. ObeyAll(sky, <<>> \o <<Track(q)>>).goal = q
  <2> DEFINE c == <<>> \o <<Track(q)>>
  <2>1. <<>> \in Seq(Commands) /\ Len(<<>>) = 0 /\ <<Track(q)>> \in Seq(Commands)
        /\ Len(<<Track(q)>>) = 1 /\ <<Track(q)>>[1] = Track(q)
    BY <1>6
  <2>2. Len(c) = 1 /\ c[1] = Track(q)
    BY <2>1, ConcatProperties
  <2> HIDE DEF c
  <2>3. QED  BY <1>2, <2>2 DEF ObeyAll, TypeOK
<1>8. ObeyAll(sky, <<Sync(p)>> \o <<Track(q)>>).goal = q
  <2> DEFINE c == <<Sync(p)>> \o <<Track(q)>>
  <2>1. /\ <<Sync(p)>> \in Seq(Commands) /\ Len(<<Sync(p)>>) = 1 /\ <<Sync(p)>>[1] = Sync(p)
        /\ <<Track(q)>> \in Seq(Commands) /\ Len(<<Track(q)>>) = 1 /\ <<Track(q)>>[1] = Track(q)
    BY <1>6
  <2>2. Len(c) = 2 /\ c[1] = Sync(p) /\ c[2] = Track(q)
    BY <2>1, ConcatProperties
  <2> HIDE DEF c
  <2>3. QED  BY <1>2, <1>3, <2>2 DEF ObeyAll
<1>9. QED  BY <1>4, <1>5, <1>7, <1>8

(* To the next point, while the run goes on.                               *)
LEMMA AdvanceAims ==
    ASSUME TypeOK, NEW r, AtPoint(r), r.state = "SETTLING", NEW cmds,
           cmds = <<>> \/ cmds = JustSync(cam.at), Advance(cmds, r),
           Running(run'), run'.points[run'.index] \notin Unreachable
    PROVE  run'.state = "SLEWING" /\ sky'.goal = run'.points[run'.index]
<1> DEFINE next == [r EXCEPT !.index = @ + 1]
<1>1. r \in Runs /\ r.index \in DOMAIN r.points /\ r.index \in Nat
  BY DEF AtPoint, Runs
<1>2. next \in Runs /\ next.points = r.points /\ next.index = r.index + 1
  BY <1>1 DEF Runs
<1>3. r.index # Len(r.points)
  <2>1. ASSUME r.index = Len(r.points)
        PROVE  run'.state = "DONE"
    BY <1>2, <2>1 DEF Advance, Runs
  <2>2. QED  BY <2>1 DEF Running
<1>4. Send(cmds \o GotoPoint(next)) /\ run' = Departed(next, GotoPoint(next))
  BY <1>3 DEF Advance
<1>5. next.points[next.index] \in Pos
  BY <1>1, <1>2, <1>3, PointTypes
<1> HIDE DEF next
<1>6. /\ run'.points = next.points /\ run'.index = next.index
      /\ run'.state = IF GotoPoint(next) = <<>> THEN "IDLE" ELSE "SLEWING"
  BY <1>2, <1>4 DEF Departed, Runs
<1>7. run'.state = "SLEWING" /\ ~Refused(next.points[next.index])
  BY <1>6 DEF Running, GotoPoint, JustTrack
<1>8. cam.at \in MaybePos
  BY DEF TypeOK, Solves, MaybePos
<1>9. sky'.goal = next.points[next.index]
  BY <1>4, <1>5, <1>6, <1>7, <1>8, GotoAims DEF Send, GotoPoint
<1>10. QED  BY <1>6, <1>7, <1>9

(* The mount sets out for a point: from the run's beginning, ...           *)
LEMMA StartAims ==
    ASSUME TypeOK, NEW points \in PointLists, StartRun(points), Strays, Running(run'), ~astray'
    PROVE  run'.state = "SLEWING" /\ sky'.goal = run'.points[run'.index]
<1> DEFINE r == [NoRun EXCEPT !.points = points]
<1>1. r.points = points /\ r.index = 1
  BY DEF NoRun
<1>2. points[1] \in Pos
  <2>1. points \in Seq(Pos) /\ points # <<>>
    BY AlignmentAssumption
  <2>2. QED  BY <2>1, EmptySeq, LenProperties, ElementOfSeq
<1>3. Send(JustTrack(points[1])) /\ run' = Departed(r, JustTrack(points[1]))
  BY <1>1 DEF StartRun, GotoPoint
<1>4. /\ run'.points = points /\ run'.index = 1
      /\ run'.state = IF JustTrack(points[1]) = <<>> THEN "IDLE" ELSE "SLEWING"
  BY <1>3 DEF Departed, NoRun
<1>5. run'.state = "SLEWING" /\ ~Refused(points[1])
  BY <1>4 DEF Running, JustTrack
<1>6. run.state # "SLEWING"
  BY DEF StartRun, Running
<1>7. points[1] \notin Unreachable
  BY <1>4, <1>5, <1>6 DEF Strays, Departs
<1>8. sky'.goal = points[1]
  BY <1>2, <1>3, <1>5, <1>7, GotoAims DEF Send, MaybePos
<1>9. QED  BY <1>4, <1>5, <1>8

(* ... and from the point before.                                          *)
LEMMA LeaveAims ==
    ASSUME AlignedInv, RunSkipPoint \/ RunSyncPoint \/ RunSyncRefused, Strays, Running(run'), ~astray'
    PROVE  run'.state = "SLEWING" /\ sky'.goal = run'.points[run'.index]
<1>1. TypeOK /\ WellRun(run) /\ run \in Runs
  BY DEF AlignedInv, WellRun
<1>2. run.state = "SETTLING" /\ run.index \in DOMAIN run.points
  BY <1>1 DEF RunSkipPoint, RunSyncPoint, RunSyncRefused, RunUnsolved, InRun, WellRun, Running
<1>3. PICK r, cmds :
          /\ AtPoint(r) /\ r.state = "SETTLING" /\ Advance(cmds, r)
          /\ cmds = <<>> \/ cmds = JustSync(cam.at)
  <2>1. CASE RunSkipPoint
    <3>1. AtPoint([run EXCEPT !.wait = 0]) /\ [run EXCEPT !.wait = 0].state = "SETTLING"
      BY <1>1, <1>2, Limits DEF WellRun, AtPoint, Runs
    <3>2. QED  BY <2>1, <3>1 DEF RunSkipPoint
  <2>2. CASE RunSyncPoint
    <3>1. DOMAIN run.points \subseteq Nat
      BY <1>1, <1>2, PointTypes
    <3> DEFINE s == [run EXCEPT !.synced = @ \cup {run.index}]
    <3>2. AtPoint(s) /\ s.state = "SETTLING"
      BY <1>1, <1>2, <3>1 DEF WellRun, AtPoint, Runs
    <3>3. QED  BY <2>2, <3>2 DEF RunSyncPoint
  <2>3. CASE RunSyncRefused
    <3>1. AtPoint(run)
      BY <1>1, <1>2 DEF WellRun, AtPoint
    <3>2. QED  BY <1>2, <2>3, <3>1 DEF RunSyncRefused
  <2>4. QED  BY <2>1, <2>2, <2>3
<1>4. run'.state = "SLEWING"
  <2>1. run'.state \in {"IDLE", "DONE", "SLEWING"}
    BY <1>3 DEF Advance, Departed, AtPoint, Runs
  <2>2. QED  BY <2>1 DEF Running
<1>5. run'.points[run'.index] \notin Unreachable
  BY <1>2, <1>4 DEF Strays, Departs
<1>6. QED  BY <1>1, <1>3, <1>5, AdvanceAims

LEMMA RunOnPointKept ==
    ASSUME AlignedInv, AlignedInv', AskedInMode, RunOnPoint, AlignedNext, Strays
    PROVE  RunOnPoint'
<1> SUFFICES ASSUME Running(run'), ~astray'
             PROVE  RunOnPoint'
  BY DEF RunOnPoint
<1>1. TypeOK /\ WellRun(run) /\ run \in Runs
  BY DEF AlignedInv, WellRun
<1>2. Passive'
  BY DEF Strays
<1>3. ASSUME run'.state = "SLEWING", sky'.goal = run'.points[run'.index]
      PROVE  RunOnPoint'
  BY <1>2, <1>3 DEF RunOnPoint
<1>4. ASSUME NEW points \in PointLists, StartRun(points)
      PROVE  RunOnPoint'
  BY <1>1, <1>3, <1>4, StartAims
<1>5. CASE RunSkipPoint \/ RunSyncPoint \/ RunSyncRefused
  BY <1>3, <1>5, LeaveAims
<1> SUFFICES ASSUME ~(\E points \in PointLists : StartRun(points)),
                    ~(RunSkipPoint \/ RunSyncPoint \/ RunSyncRefused)
             PROVE  RunOnPoint'
  BY <1>4, <1>5
<1>6. UNCHANGED run \/ RunSlewing \/ RunSettleWait \/ RunFreshWait
  <2>1. CASE StopRun
    <3>1. run'.state = "IDLE"
      BY <1>1, <2>1 DEF StopRun, Runs
    <3>2. QED  BY <3>1 DEF Running
  <2>2. CASE RestartAll
    BY <2>2 DEF RestartAll, NoRun, Running
  <2>3. CASE HandlePiFinderAlignSync
    BY <2>3
    DEF HandlePiFinderAlignSync, AlignNothing, AlignUnanswered, AlignAnswered, AlignFirstSeen,
        AlignDeferred, AlignGivenUp, AlignSynced, Answered, Aligning
  <2>4. QED
    BY <2>1, <2>2, <2>3
    DEF AlignedNext, AlignedTick, TickWithout, TickWith, Ageing, Elsewhere, Align,
        HandleMultiPointAlignment, RunNothing
<1>7. Running(run) /\ ~Departs
  BY <1>1, <1>6
  DEF Running, Departs, RunSlewing, RunSettleWait, RunFreshWait, RunUnsolved, InRun, Arrived, Runs
<1>8. ~astray /\ ~NotLeftAlone
  BY <1>7 DEF Strays
<1>9. Passive /\ (run.state = "SETTLING" => sky.goal = None /\ sky.mount = run.points[run.index])
  BY <1>7, <1>8 DEF RunOnPoint
<1>10. run.points[run.index] \in Pos
  BY <1>1, <1>7, PointTypes DEF WellRun
<1>11. CASE UNCHANGED run
  <2> USE <1>2, <1>7, <1>8, <1>11 DEF RunOnPoint
  <2>1. CASE sky'.mount = sky.mount /\ sky'.goal = sky.goal
    BY <2>1
  <2>2. CASE sky'.mount = sky.goal /\ sky'.goal = None
    <3>1. sky.goal # None
      BY <2>2, PosAssumption DEF AlignedInv, TypeOK, MountStates
    <3>2. run.state = "SLEWING" /\ sky.goal = run.points[run.index]
      BY <3>1 DEF Running
    <3>3. QED  BY <2>2, <3>2
  <2>3. QED  BY <2>1, <2>2 DEF NotLeftAlone
<1>12. CASE run'.state = "SETTLING" /\ (RunSlewing \/ RunSettleWait \/ RunFreshWait)
  <2>1. HandleMultiPointAlignment
    BY <1>12 DEF HandleMultiPointAlignment
  <2>2. UNCHANGED sky /\ run'.points[run'.index] = run.points[run.index]
    BY <1>12, <2>1, RunSettles
  <2>3. run.state = "SLEWING" => sky.goal = None
    BY <1>12, <2>1, RunSettles DEF MountSlewing
  <2>4. sky.goal = None /\ sky.mount = run.points[run.index]
    BY <1>7, <1>8, <1>9, <1>10, <2>3, PosAssumption DEF RunOnPoint, Running
  <2>5. QED  BY <1>2, <1>12, <2>2, <2>4 DEF RunOnPoint
<1>13. CASE run'.state = "SLEWING" /\ (RunSlewing \/ RunSettleWait \/ RunFreshWait)
  <2>1. UNCHANGED run
    BY <1>1, <1>13
    DEF RunSlewing, RunSettleWait, RunFreshWait, RunUnsolved, InRun, Arrived, Runs
  <2>2. QED  BY <1>11, <2>1
<1>14. QED  BY <1>6, <1>11, <1>12, <1>13 DEF Running

(* Only the sync of a point counts it as synced.                           *)
LEMMA SyncsCount ==
    ASSUME AlignedInv, AlignedNext, run'.synced \ run.synced # {}
    PROVE  RunSyncPoint
<1>1. run \in Runs /\ TypeOK
  BY DEF AlignedInv, WellRun
<1>2. ~(UNCHANGED run)
  OBVIOUS
<1>3. ASSUME NEW r \in Runs, r.synced = run.synced, NEW cmds, Advance(cmds, r)
      PROVE  FALSE
  <2>1. run'.synced = r.synced
    BY <1>3 DEF Advance, Departed, Runs
  <2>2. QED  BY <1>3, <2>1
<1>4. ~RunSkipPoint
  <2>1. [run EXCEPT !.wait = 0] \in Runs /\ [run EXCEPT !.wait = 0].synced = run.synced
    BY <1>1, Limits DEF Runs
  <2>2. QED  BY <1>3, <2>1 DEF RunSkipPoint
<1>5. ~RunSyncRefused
  BY <1>1, <1>3 DEF RunSyncRefused
<1>6. ~RunNothing /\ ~RunSlewing /\ ~RunSettleWait /\ ~RunFreshWait
  BY <1>1 DEF RunNothing, RunSlewing, Arrived, RunSettleWait, RunFreshWait, Runs
<1>7. ~HandlePiFinderAlignSync
  BY <1>2
  DEF HandlePiFinderAlignSync, AlignNothing, AlignUnanswered, AlignAnswered, AlignFirstSeen,
      AlignDeferred, AlignGivenUp, AlignSynced, Answered, Aligning
<1>8. ~TickWithout /\ ~TickWith /\ ~(RestOfTick /\ UNCHANGED <<run, ali>>) /\ ~Elsewhere /\ ~Align
  BY <1>2 DEF TickWithout, TickWith, Ageing, Elsewhere, Align
<1>9. ~RestartAll
  BY DEF RestartAll, NoRun
<1>10. ~StopRun
  BY <1>1 DEF StopRun, Runs
<1>11. ~(\E points \in PointLists : StartRun(points))
  BY DEF StartRun, Departed, NoRun
<1>12. QED
  BY <1>4, <1>5, <1>6, <1>7, <1>8, <1>9, <1>10, <1>11
  DEF AlignedNext, AlignedTick, HandleMultiPointAlignment

(* A point counts as synced only if the mount is at rest at that point,    *)
(* unless somebody moved or stopped the mount, or it refused to go, since  *)
(* the run sent it there.                                                  *)
THEOREM SyncedAtPointAlways == AlignedSpec => SyncedAtPoint
<1>1. AlignedInit => AskedInMode /\ RunOnPoint
  BY DEF AlignedInit, Init, NoReposition, AskedInMode, NoRun, Running, RunOnPoint
<1>2. AlignedInv /\ AlignedInv' /\ AskedInMode /\ RunOnPoint /\
      [AlignedNext /\ Strays]_alignmentVars =>
          AskedInMode' /\ RunOnPoint'
  <2> SUFFICES ASSUME AlignedInv, AlignedInv', AskedInMode, RunOnPoint, [AlignedNext /\ Strays]_alignmentVars
               PROVE  AskedInMode' /\ RunOnPoint'
    OBVIOUS
  <2>1. CASE UNCHANGED alignmentVars
    BY <2>1 DEF alignmentVars, driverVars, vars, AskedInMode, RunOnPoint, Running, Passive
  <2>2. CASE AlignedNext /\ Strays
    BY <2>2, AskedKept, RunOnPointKept DEF AlignedInv
  <2>3. QED  BY <2>1, <2>2
<1>3. AlignedInv /\ RunOnPoint /\ [AlignedNext /\ Strays]_alignmentVars =>
          [~astray /\ run'.synced \ run.synced # {} =>
              ~MountSlewing /\ sky.mount = run.points[run.index]]_alignmentVars
  <2> SUFFICES ASSUME AlignedInv, RunOnPoint, AlignedNext, ~astray, run'.synced \ run.synced # {}
               PROVE  ~MountSlewing /\ sky.mount = run.points[run.index]
    OBVIOUS
  <2>1. RunSyncPoint
    BY SyncsCount
  <2>2. QED  BY <2>1 DEF RunSyncPoint, InRun, RunOnPoint, Running, MountSlewing
<1>4. QED
  BY <1>1, <1>2, <1>3, AlignedInvariant, PTL DEF AlignedSpec, SyncedAtPoint
================================================================================
