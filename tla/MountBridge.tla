------------------------------ MODULE MountBridge ------------------------------
(***************************************************************************)
(* The Mount Bridge driver as a whole.  TimerHit() runs every poll period: *)
(* TickStart ages everything, bootstraps the mount's position and reads    *)
(* both positions; then reposition detection looks at them; then, unless   *)
(* it handled the tick, the mode's handler acts.  Between these three      *)
(* steps the world goes on: a solve arrives or expires, a slew ends,       *)
(* PiFinder publishes a target.  Between two ticks the operator's INDI     *)
(* requests (ISNewSwitch) are served, and the telescope may be moved by    *)
(* other hands.                                                            *)
(***************************************************************************)
EXTENDS GotoForward, AutoCorrect, Reposition

(* One-time Sync after Connect(), in the modes that may move the mount,    *)
(* unless the mount still is where it was last seen.                       *)
Bootstrapping == ~ses.didInit /\ sel.mode \in {"AUTO", "GOTO"}
MountUnchanged == ses.known # Origin /\ Sep(sky.mount, ses.known) = 0
BootCommands(solve) ==
    IF Bootstrapping /\ ~MountUnchanged /\ Trusted(solve) THEN JustSync(solve.at) ELSE <<>>
BootDone(cmds) == Bootstrapping /\ (MountUnchanged \/ cmds # <<>>)

(* What the rest of the tick goes by.                                      *)
Positions(solve, m) ==
    IF Trusted(solve) THEN [NoTick EXCEPT !.phase = "detect", !.pi = solve.at, !.mount = m.mount]
    ELSE [NoTick EXCEPT !.phase = "detect"]

BeginTick ==
    /\ tick.phase = "idle"
    /\ cam' = [cam EXCEPT !.age = Older(@, Stale)]
    /\ rep' = [rep EXCEPT !.polledAge = Older(@, Forever), !.goodAge = Older(@, Forever),
                          !.deadline = IF @ > 0 THEN @ - 1 ELSE 0]
    /\ out' = BootCommands(cam')
    /\ sky' = ObeyAll(sky, out')
    /\ ses' = [cmdAge |-> IF out' = <<>> THEN Older(ses.cmdAge, OwnWindow) ELSE 0,
               didInit |-> ses.didInit \/ BootDone(out'),
               known |-> IF Sep(sky'.mount, ses.known) > 0 THEN sky'.mount ELSE ses.known]
    /\ UNCHANGED <<tgt, sel, fwd, cor, held, budget>>
TickStart ==
    /\ BeginTick
    /\ tick' = Positions(cam', sky')

SkipDetection ==
    /\ tick.phase = "detect" /\ ~DetectionApplies
    /\ PassOn
    /\ out' = <<>>
    /\ UNCHANGED <<sky, cam, tgt, sel, fwd, cor, held, rep, ses, budget>>

(* External hold, Off, Verify/Alert, or Auto-correct without positions.    *)
JustWatch ==
    /\ tick.phase = "act"
    /\ sel.hold \/ sel.mode \in {"OFF", "VERIFY"} \/ (sel.mode = "AUTO" /\ ~HavePositions)
    /\ tick' = NoTick
    /\ out' = <<>>
    /\ UNCHANGED <<sky, cam, tgt, sel, fwd, cor, held, rep, ses, budget>>

RestOfTick ==
    \/ SkipDetection \/ HandleReposition
    \/ JustWatch \/ HandleGotoForward \/ HandleAutoCorrect
Tick == TickStart \/ RestOfTick

------------------------------------------------------------------------------
(* The operator.                                                           *)
BetweenTicks == tick.phase = "idle" /\ UNCHANGED tick
Spend(kind) == kind \in Events /\ budget > 0 /\ budget' = budget - 1

(* Selecting a mode, the same one too, resets the state machines and       *)
(* reposition detection; Goto-Forward is entered with a Sync.              *)
EntryCommands(mode) == IF mode = "GOTO" /\ FreshPosition THEN JustSync(cam.at) ELSE <<>>
RepositionReset ==
    [rep EXCEPT !.ext = FALSE, !.goodAge = Forever, !.trusted = FALSE, !.confirm = FALSE]
SetMode(mode) ==
    /\ BetweenTicks /\ Spend("mode")
    /\ sel' = [sel EXCEPT !.mode = mode]
    /\ fwd' = Reset(fwd)
    /\ cor' = Reset(cor)
    /\ tgt' = Consumed
    /\ rep' = RepositionReset
    /\ Send(EntryCommands(mode))
    /\ UNCHANGED <<cam, held>>

SetAction(action) ==
    /\ BetweenTicks /\ Spend("action")
    /\ sel' = [sel EXCEPT !.action = action]
    /\ cor' = Reset(cor)
    /\ SendNothing
    /\ UNCHANGED <<cam, tgt, fwd, held, rep>>

SetHold(hold) ==
    /\ BetweenTicks /\ Spend("hold")
    /\ sel' = [sel EXCEPT !.hold = hold]
    /\ SendNothing
    /\ UNCHANGED <<cam, tgt, fwd, cor, held, rep>>

(* The mount stops somewhere on its way.                                   *)
StoppedAt(p) ==
    [sky EXCEPT !.scope = Carry(@, sky.mount, p), !.mount = p, !.goal = None]
Halt ==
    /\ IF MountSlewing
       THEN /\ \E p \in Pos : sky' = StoppedAt(p)
            /\ cam' = [cam EXCEPT !.moved = TRUE]
       ELSE UNCHANGED <<sky, cam>>
    /\ out' = <<>>
    /\ UNCHANGED <<tgt, sel, fwd, cor, held, rep, ses>>
AbortMount == BetweenTicks /\ Spend("abort") /\ Halt

(* The operator's answer to a pending confirmation.                        *)
Answering(reply) ==
    /\ BetweenTicks /\ Spend(reply) /\ rep.confirm
    /\ UNCHANGED <<cam, sel>>

ConfirmYes ==
    /\ Answering("yes")
    /\ SendNothing
    /\ IF FreshPosition
       THEN /\ rep' = [rep EXCEPT !.confirm = FALSE, !.goodAge = 0]
            /\ Adopt(cam.at, cam.at)
            /\ fwd' = [fwd EXCEPT !.state = "HOLDING"]
            /\ cor' = Reset(cor)
       ELSE /\ rep' = [rep EXCEPT !.confirm = FALSE]
            /\ UNCHANGED <<held, tgt, fwd, cor>>

ConfirmNo ==
    /\ Answering("no")
    /\ rep' = [rep EXCEPT !.confirm = FALSE]
    /\ IF FreshPosition THEN Revert(cam.at, held.forwarded) ELSE SendNothing /\ UNCHANGED <<fwd, cor>>
    /\ UNCHANGED <<tgt, held>>

(* Disconnect and Connect: the driver's own state machines survive.        *)
Reconnect ==
    /\ BetweenTicks /\ Spend("reconnect")
    /\ sel' = [sel EXCEPT !.hold = FALSE]
    /\ ses' = [ses EXCEPT !.didInit = FALSE]
    /\ out' = <<>>
    /\ UNCHANGED <<sky, cam, tgt, fwd, cor, held, rep>>

(* The driver's process ends and is started again: only what is in its     *)
(* configuration file survives, the correction action as last saved.       *)
Restart ==
    /\ Spend("restart")
    /\ \E a \in Actions : sel' = [sel EXCEPT !.hold = FALSE, !.action = a]
    /\ ses' = [ses EXCEPT !.cmdAge = OwnWindow, !.didInit = FALSE]
    /\ sky' = [sky EXCEPT !.rejected = FALSE]
    /\ tgt' = Consumed
    /\ fwd' = IdleForward /\ cor' = IdleCorrect
    /\ held' = NothingHeld /\ rep' = NoReposition
    /\ tick' = NoTick /\ out' = <<>>
    /\ UNCHANGED cam

(* What the operator asks for; AbortMount only stops.                      *)
Ask ==
    \/ \E mode \in Modes : SetMode(mode)
    \/ \E action \in Actions : SetAction(action)
    \/ \E hold \in BOOLEAN : SetHold(hold)
    \/ ConfirmYes \/ ConfirmNo
    \/ Reconnect
Instruct == Ask \/ Restart

------------------------------------------------------------------------------
(* The world (external): the mount, PiFinder, and other hands.             *)
Outside ==
    /\ tick.phase \in WorldPhases
    /\ out' = <<>> /\ UNCHANGED <<sel, fwd, cor, held, rep, ses, tick>>

(* A slew ends where it was sent.                                          *)
Arrive ==
    /\ MountSlewing
    /\ sky' = StoppedAt(sky.goal)
    /\ cam' = [cam EXCEPT !.moved = TRUE]
    /\ Outside /\ UNCHANGED <<tgt, budget>>

(* A camera frame is solved; the last solve passes the freshness limit.    *)
Solve ==
    /\ cam' = [at |-> sky.scope, age |-> 0, moved |-> FALSE]
    /\ Outside /\ UNCHANGED <<sky, tgt, budget>>
Expire ==
    /\ cam.age = MaxAge
    /\ cam' = [cam EXCEPT !.age = Stale]
    /\ Outside /\ UNCHANGED <<sky, tgt, budget>>

(* A user's push-to; the LX200 driver publishes it, once when the Goto     *)
(* comes in and once when it polls the changed value.  Each publication    *)
(* sets the client's pending flag, whatever the value.                     *)
PushTo(p) ==
    /\ BetweenTicks /\ Spend("push")
    /\ Request(p, "user")
    /\ out' = <<>> /\ UNCHANGED <<sky, cam, sel, fwd, cor, held, rep, ses>>
Publish ==
    /\ tgt.wire # <<>>
    /\ tgt' = [wire |-> Tail(tgt.wire), at |-> Head(tgt.wire).at, pending |-> Head(tgt.wire).by]
    /\ out' = <<>>
    /\ UNCHANGED <<sky, cam, sel, fwd, cor, held, rep, ses, tick, budget>>

(* Another client or the hand paddle drives the mount; its motors turn.    *)
ExternalMove(p) ==
    /\ BetweenTicks /\ Spend("move") /\ p # sky.mount
    /\ sky' = StoppedAt(p)
    /\ out' = <<>> /\ UNCHANGED <<cam, tgt, sel, fwd, cor, held, rep, ses>>

(* The clutch is opened, or the model is off: the scope moves, the mount   *)
(* does not notice.                                                        *)
Slip(p) ==
    /\ BetweenTicks /\ Spend("slip") /\ p # sky.scope
    /\ sky' = [sky EXCEPT !.scope = p]
    /\ out' = <<>> /\ UNCHANGED <<cam, tgt, sel, fwd, cor, held, rep, ses>>

World ==
    \/ Arrive \/ Solve \/ Expire \/ Publish
    \/ \E p \in Places : ExternalMove(p) \/ Slip(p)
SomePushTo == \E p \in Places : PushTo(p)

Next == Tick \/ Instruct \/ AbortMount \/ SomePushTo \/ World

(* Safety alone; and with the fairness of the poll timer, of a mount that  *)
(* finishes its slews, a solver that keeps solving and a PiFinder whose    *)
(* publications arrive.  Fairness is strong where WorldPhases may disable  *)
(* what in truth goes on all the time.                                     *)
Spec == Init /\ [][Next]_vars
Fairness == WF_vars(Tick) /\ WF_vars(Publish) /\ SF_vars(Arrive) /\ SF_vars(Solve)
FairSpec == Spec /\ Fairness
================================================================================
