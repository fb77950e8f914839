---------------------------- MODULE Watchdogs_proofs ----------------------------
(***************************************************************************)
(* Proofs about the Control Center's watchdogs: whatever the watchdogs,    *)
(* their threads, the handlers and the faults do, in whatever order, every *)
(* variable keeps its type.  In particular a thread that sets the mode     *)
(* chosen last finds one chosen, though it acts later than the tick that   *)
(* triggered it, and no switch of profiles works towards no profile.       *)
(***************************************************************************)
EXTENDS WatchdogProperties, TLAPS

(* What repairs the mode does so because one was chosen; none is unchosen. *)
CoupleWished == job = "couple" => desired.mode \in Modes

(* A request at work has a profile to work on.                             *)
RequestStates ==
    [kind : {"none", "remember", "host", "client", "drivers"}, target : Named,
     step : {"stop", "edit", "change", "start", "wait", "over"}]
WellAimed(q) == q.step # "over" => q.target \in Names
RequestsAimed == \A r \in Requests : WellAimed(request[r])

ProfilesInv == ProfilesTypeOK /\ RequestsAimed
WatchdogInv == ProfilesTypeOK /\ HoldTypeOK /\ ReadinessTypeOK /\ CoupleWished /\ RequestsAimed

----------------------------------------------------------------------------
(* The profiles: what a request's moves, and a profile's edits, yield.     *)
ProfileStates == [there : BOOLEAN, bridge : BOOLEAN, remote : BOOLEAN, auto : BOOLEAN]

LEMMA ProfilesParts ==
    ProfilesTypeOK <=>
        /\ maintenance \in [on : BOOLEAN, profile : Named, auto : BOOLEAN]
        /\ role \in {None, "host", "client"}
        /\ last \in [active : Named, host : Named, client : Named]
        /\ server \in Named
        /\ profile \in [Names -> ProfileStates]
        /\ switching \in BOOLEAN
        /\ request \in [Requests -> RequestStates]
        /\ cold \in [job : BOOLEAN, tries : Nat, cooling : BOOLEAN, gaveUp : BOOLEAN]
        /\ service \in [active : BOOLEAN, stoppedFor : BOOLEAN, known : BOOLEAN, cut : BOOLEAN]
BY DEF ProfilesTypeOK, ProfileStates, RequestStates

LEMMA RequestMoves ==
    ASSUME NEW q \in [Requests -> RequestStates], \A s \in Requests : WellAimed(q[s]),
           NEW r \in Requests, NEW x \in RequestStates, WellAimed(x),
           request' = [q EXCEPT ![r] = x]
    PROVE  request' \in [Requests -> RequestStates] /\ RequestsAimed'
<1>1. request' \in [Requests -> RequestStates]
  OBVIOUS
<1>2. ASSUME NEW s \in Requests PROVE WellAimed(request'[s])
  <2>1. request'[s] = IF s = r THEN x ELSE q[s]
    OBVIOUS
  <2>2. QED  BY <2>1
<1>3. QED  BY <1>1, <1>2 DEF RequestsAimed, WellAimed

(* The next step of a request that is not over.                            *)
LEMMA RequestSteps ==
    ASSUME ProfilesInv, NEW r \in Requests, request[r].step # "over",
           NEW step \in {"stop", "edit", "change", "start", "wait", "over"},
           request' = [request EXCEPT ![r].step = step]
    PROVE  request' \in [Requests -> RequestStates] /\ RequestsAimed'
<1>1. request \in [Requests -> RequestStates] /\ WellAimed(request[r])
  BY ProfilesParts DEF ProfilesInv, RequestsAimed
<1>2. [request[r] EXCEPT !.step = step] \in RequestStates
  BY <1>1 DEF RequestStates
<1>3. [request[r] EXCEPT !.step = step].target = request[r].target
  BY <1>1 DEF RequestStates
<1>4. WellAimed([request[r] EXCEPT !.step = step])
  BY <1>1, <1>3 DEF WellAimed
<1>5. request' = [request EXCEPT ![r] = [request[r] EXCEPT !.step = step]]
  BY <1>1
<1>6. QED  BY <1>1, <1>2, <1>4, <1>5, RequestMoves DEF ProfilesInv, RequestsAimed

LEMMA RequestEnds ==
    ASSUME ProfilesInv, NEW r \in Requests, request' = [request EXCEPT ![r] = Idle]
    PROVE  request' \in [Requests -> RequestStates] /\ RequestsAimed'
<1>1. request \in [Requests -> RequestStates]
  BY ProfilesParts DEF ProfilesInv
<1>2. Idle \in RequestStates /\ WellAimed(Idle)
  BY DEF Idle, RequestStates, Named, WellAimed
<1>3. QED  BY <1>1, <1>2, RequestMoves DEF ProfilesInv, RequestsAimed

LEMMA RequestBegins ==
    ASSUME ProfilesInv, NEW r \in Requests, NEW kind \in {"remember", "host", "client", "drivers"},
           NEW p \in Names, NEW step \in {"stop", "edit", "start", "wait"},
           Begin(r, kind, p, step)
    PROVE  request' \in [Requests -> RequestStates] /\ RequestsAimed' /\ switching' \in BOOLEAN
<1>1. request \in [Requests -> RequestStates]
  BY ProfilesParts DEF ProfilesInv
<1> DEFINE x == [kind |-> kind, target |-> p, step |-> step]
<1>2. x \in RequestStates /\ WellAimed(x)
  BY DEF RequestStates, Named, WellAimed
<1>3. request' = [request EXCEPT ![r] = x]
  BY DEF Begin
<1>4. switching' \in BOOLEAN
  BY DEF Begin
<1> HIDE DEF x
<1>5. QED  BY <1>1, <1>2, <1>3, <1>4, RequestMoves DEF ProfilesInv, RequestsAimed

LEMMA Edited ==
    ASSUME ProfilesTypeOK, NEW p \in Names, NEW on \in BOOLEAN
    PROVE  /\ Flagged(p, on) \in [Names -> ProfileStates]
           /\ Minimal(p) \in [Names -> ProfileStates]
           /\ [profile EXCEPT ![p].bridge = ~@] \in [Names -> ProfileStates]
           /\ [profile EXCEPT ![p].remote = ~@] \in [Names -> ProfileStates]
<1>1. profile \in [Names -> ProfileStates] /\ profile[p] \in ProfileStates
  BY ProfilesParts
<1>2. Flagged(p, on) \in [Names -> ProfileStates]
  BY <1>1 DEF Flagged, ProfileStates
<1>3. Minimal(p) \in [Names -> ProfileStates]
  BY <1>1 DEF Minimal, ProfileStates
<1>4. [profile EXCEPT ![p].bridge = ~@] \in [Names -> ProfileStates]
  BY <1>1 DEF ProfileStates
<1>5. [profile EXCEPT ![p].remote = ~@] \in [Names -> ProfileStates]
  BY <1>1 DEF ProfileStates
<1>6. QED  BY <1>2, <1>3, <1>4, <1>5

(* A request that begins has a profile to work on, ...                     *)
LEMMA BeginKeeps ==
    ASSUME ProfilesInv, NEW r \in Requests, NEW p \in Names, NEW changed \in BOOLEAN,
           RememberProfile(r, p) \/ HostProfile(r) \/ ClientSwitch(r, changed) \/ ChangeDrivers(r, p)
    PROVE  ProfilesInv' /\ desired' = desired
<1>1. \A q \in Names : Towards(q, FALSE) \in {"stop", "edit", "start", "wait"}
                       /\ Towards(q, changed) \in {"stop", "edit", "start", "wait"}
  BY DEF Towards
<1>2. CASE RememberProfile(r, p)
  <2>1. request' \in [Requests -> RequestStates] /\ RequestsAimed' /\ switching' \in BOOLEAN
    BY <1>1, <1>2, RequestBegins DEF RememberProfile
  <2>2. last' \in [active : Named, host : Named, client : Named]
    BY <1>2, ProfilesParts DEF RememberProfile, ProfilesInv, Named
  <2>3. QED  BY <1>2, <2>1, <2>2, ProfilesParts DEF RememberProfile, ProfilesInv, ProfilesTypeOK, ProfileStates, RequestStates
<1>3. CASE HostProfile(r)
  <2>1. last.host \in Names
    BY <1>3, ProfilesParts DEF HostProfile, ProfilesInv, Named
  <2>2. request' \in [Requests -> RequestStates] /\ RequestsAimed' /\ switching' \in BOOLEAN
    BY <1>1, <1>3, <2>1, RequestBegins DEF HostProfile
  <2>3. QED  BY <1>3, <2>2, ProfilesParts DEF HostProfile, ProfilesInv, ProfilesTypeOK, ProfileStates, RequestStates
<1>4. CASE ClientSwitch(r, changed)
  <2>1. PICK q \in Names : /\ Begin(r, "client", q, Towards(q, changed))
                           /\ profile' = IF changed THEN Minimal(q) ELSE profile
    <3>1. last.client # None => last.client \in Names
      BY ProfilesParts DEF ProfilesInv, Named
    <3>2. QED  BY <1>4, <3>1, ProfilesAssumption DEF ClientSwitch
  <2>2. request' \in [Requests -> RequestStates] /\ RequestsAimed' /\ switching' \in BOOLEAN
    BY <1>1, <2>1, RequestBegins
  <2>3. profile' \in [Names -> ProfileStates]
    BY <2>1, Edited, ProfilesParts DEF ProfilesInv
  <2>4. QED  BY <1>4, <2>2, <2>3, ProfilesParts DEF ClientSwitch, ProfilesInv, ProfilesTypeOK, ProfileStates, RequestStates
<1>5. CASE ChangeDrivers(r, p)
  <2>1. request' \in [Requests -> RequestStates] /\ RequestsAimed' /\ switching' \in BOOLEAN
    BY <1>5, RequestBegins DEF ChangeDrivers
  <2>2. QED  BY <1>5, <2>1, ProfilesParts DEF ChangeDrivers, ProfilesInv, ProfilesTypeOK, ProfileStates, RequestStates
<1>6. QED  BY <1>2, <1>3, <1>4, <1>5

(* ... keeps it at every step, ...                                         *)
LEMMA StepKeeps ==
    ASSUME ProfilesInv, NEW r \in Requests, NEW d \in {"bridge", "remote"},
           Stopped(r) \/ Changed(r, d) \/ Started(r)
    PROVE  ProfilesInv' /\ desired' = desired
<1>1. request[r].step # "over" => request[r].target \in Names
  BY DEF ProfilesInv, RequestsAimed, WellAimed
<1>2. CASE Stopped(r)
  <2>1. request' \in [Requests -> RequestStates] /\ RequestsAimed'
    BY <1>2, RequestSteps DEF Stopped
  <2>2. server' \in Named
    BY <1>2 DEF Stopped, Named
  <2>3. QED  BY <1>2, <2>1, <2>2 DEF Stopped, ProfilesInv, ProfilesTypeOK, RequestStates
<1>3. CASE Changed(r, d)
  <2>1. request' \in [Requests -> RequestStates] /\ RequestsAimed'
    <3>1. PICK s \in {"start", "wait"} : request' = [request EXCEPT ![r].step = s]
      BY <1>3 DEF Changed
    <3>2. QED  BY <1>3, <3>1, RequestSteps DEF Changed
  <2>2. profile' \in [Names -> ProfileStates]
    BY <1>1, <1>3, Edited DEF Changed, ProfilesInv
  <2>3. QED  BY <1>3, <2>1, <2>2 DEF Changed, ProfilesInv, ProfilesTypeOK, RequestStates, ProfileStates
<1>4. CASE Started(r)
  <2>1. request' \in [Requests -> RequestStates] /\ RequestsAimed'
    BY <1>4, RequestSteps DEF Started
  <2>2. server' \in Named
    BY <1>1, <1>4 DEF Started, Named
  <2>3. QED  BY <1>4, <2>1, <2>2 DEF Started, ProfilesInv, ProfilesTypeOK, RequestStates
<1>5. QED  BY <1>2, <1>3, <1>4

(* ... and lets go of it in the end.                                       *)
LEMMA EndKeeps ==
    ASSUME ProfilesInv, NEW r \in Requests, Refused(r) \/ HalfRecreated(r) \/ Finished(r) \/ Hopeless(r)
    PROVE  ProfilesInv' /\ desired' = desired
<1>1. request[r].step # "over" => request[r].target \in Names
  BY DEF ProfilesInv, RequestsAimed, WellAimed
<1>2. request' \in [Requests -> RequestStates] /\ RequestsAimed' /\ switching' \in BOOLEAN
  BY RequestEnds DEF Refused, HalfRecreated, Finished, Hopeless, SwitchOver
<1>3. CASE Refused(r)
  BY <1>2, <1>3 DEF Refused, ProfilesInv, ProfilesTypeOK, RequestStates
<1>4. CASE HalfRecreated(r)
  <2>1. profile' \in [Names -> ProfileStates]
    BY <1>1, <1>4, ProfilesParts DEF HalfRecreated, ProfilesInv, ProfileStates
  <2>2. QED  BY <1>2, <1>4, <2>1 DEF HalfRecreated, ProfilesInv, ProfilesTypeOK, RequestStates, ProfileStates
<1>5. CASE Finished(r)
  <2>1. role' \in {None, "host", "client"} /\ last' \in [active : Named, host : Named, client : Named]
    BY <1>1, <1>5, ProfilesParts DEF Finished, ProfilesInv, Named
  <2>2. QED  BY <1>2, <1>5, <2>1 DEF Finished, ProfilesInv, ProfilesTypeOK, RequestStates
<1>6. QED  BY <1>3, <1>4, <1>5 DEF Hopeless

(* The user's other choices, and the world's.                              *)
LEMMA SetKeeps ==
    ASSUME ProfilesInv, NEW p \in Named, NEW choice \in {None, "host", "client"}, NEW on \in BOOLEAN,
           ServerSet(p) \/ RoleChosen(choice) \/ StopForRemote \/ ServiceSet(on)
    PROVE  ProfilesInv' /\ desired' = desired
<1>1. RequestsAimed /\ UNCHANGED request => RequestsAimed'
  BY DEF RequestsAimed, WellAimed
<1>2. CASE ServerSet(p)
  BY <1>1, <1>2 DEF ServerSet, ProfilesInv, ProfilesTypeOK
<1>3. CASE RoleChosen(choice)
  <2>1. last' \in [active : Named, host : Named, client : Named]
    BY <1>3 DEF RoleChosen, ProfilesInv, ProfilesTypeOK
  <2>2. QED  BY <1>1, <1>3, <2>1 DEF RoleChosen, ProfilesInv, ProfilesTypeOK
<1>4. CASE StopForRemote \/ ServiceSet(on)
  <2>1. service' \in [active : BOOLEAN, stoppedFor : BOOLEAN, known : BOOLEAN, cut : BOOLEAN]
    BY <1>4 DEF StopForRemote, ServiceSet, StopService, ProfilesInv, ProfilesTypeOK
  <2>2. QED  BY <1>1, <1>4, <2>1 DEF StopForRemote, ServiceSet, ProfilesInv, ProfilesTypeOK
<1>5. QED  BY <1>2, <1>3, <1>4

(* The maintenance mode withdraws the wish to be connected, and renews it. *)
LEMMA MaintenanceKeeps ==
    ASSUME ProfilesInv, NEW started \in BOOLEAN, MaintenanceOn \/ MaintenanceOff(started)
    PROVE  /\ ProfilesInv'
           /\ \E wish \in {"no", "any"} : desired' = [desired EXCEPT !.connected = wish]
<1>1. RequestsAimed /\ UNCHANGED request => RequestsAimed'
  BY DEF RequestsAimed, WellAimed
<1>2. CASE MaintenanceOn
  <2>1. profile' \in [Names -> ProfileStates] /\ server' \in Named
    <3>1. server # None => server \in Names
      BY ProfilesParts DEF ProfilesInv, Named
    <3>2. server' \in Named
      BY <1>2, ProfilesParts DEF MaintenanceOn, ProfilesInv, Named
    <3>3. QED  BY <1>2, <3>1, <3>2, Edited, ProfilesParts DEF MaintenanceOn, ProfilesInv
  <2>2. maintenance' \in [on : BOOLEAN, profile : Named, auto : BOOLEAN]
    <3>1. (server # None /\ profile[server].auto) \in BOOLEAN
      OBVIOUS
    <3>2. server \in Named
      BY ProfilesParts DEF ProfilesInv
    <3>3. QED  BY <1>2, <3>1, <3>2 DEF MaintenanceOn
  <2>3. QED
    BY <1>1, <1>2, <2>1, <2>2 DEF MaintenanceOn, ProfilesInv, ProfilesTypeOK, ProfileStates
<1>3. CASE MaintenanceOff(started)
  <2>1. profile' \in [Names -> ProfileStates] /\ server' \in Named
    <3>1. maintenance.profile # None => maintenance.profile \in Names
      BY ProfilesParts DEF ProfilesInv, Named
    <3>2. \/ UNCHANGED <<server, profile>>
          \/ /\ maintenance.profile # None /\ server' = maintenance.profile
             /\ profile' = profile \/ profile' = Flagged(maintenance.profile, TRUE)
      BY <1>3 DEF MaintenanceOff
    <3>3. QED  BY <3>1, <3>2, Edited, ProfilesParts DEF ProfilesInv, Named
  <2>2. maintenance' \in [on : BOOLEAN, profile : Named, auto : BOOLEAN]
    BY <1>3 DEF MaintenanceOff, Named
  <2>3. QED
    BY <1>1, <1>3, <2>1, <2>2 DEF MaintenanceOff, ProfilesInv, ProfilesTypeOK, ProfileStates
<1>4. QED  BY <1>2, <1>3

(* What every tick notes of the profile that runs.                         *)
LEMMA NotedType ==
    ASSUME ProfilesTypeOK, server # None, NoteActive
    PROVE  /\ last' \in [active : Named, host : Named, client : Named]
           /\ profile' \in [Names -> ProfileStates]
<1>1. server \in Names
  BY ProfilesParts DEF Named
<1>2. Noted \in [active : Named, host : Named, client : Named]
  BY ProfilesParts DEF Noted
<1>3. profile' \in [Names -> ProfileStates]
  BY <1>1, Edited, ProfilesParts DEF NoteActive
<1>4. QED  BY <1>2, <1>3 DEF NoteActive

LEMMA ColdKeeps ==
    ASSUME ProfilesInv, NEW outcome, ColdTick \/ ColdStart(outcome) \/ Cooled
    PROVE  ProfilesInv' /\ desired' = desired
<1>1. RequestsAimed /\ UNCHANGED request => RequestsAimed'
  BY DEF RequestsAimed, WellAimed
<1>2. cold \in [job : BOOLEAN, tries : Nat, cooling : BOOLEAN, gaveUp : BOOLEAN]
  BY ProfilesParts DEF ProfilesInv
<1>3. CASE ColdTick
  <2>1. cold' \in [job : BOOLEAN, tries : Nat, cooling : BOOLEAN, gaveUp : BOOLEAN]
    <3>1. \/ cold' = [cold EXCEPT !.tries = 0, !.gaveUp = FALSE]
          \/ cold' = [cold EXCEPT !.job = TRUE]
      BY <1>3 DEF ColdTick
    <3>2. [cold EXCEPT !.tries = 0, !.gaveUp = FALSE]
              \in [job : BOOLEAN, tries : Nat, cooling : BOOLEAN, gaveUp : BOOLEAN]
      BY <1>2
    <3>3. [cold EXCEPT !.job = TRUE]
              \in [job : BOOLEAN, tries : Nat, cooling : BOOLEAN, gaveUp : BOOLEAN]
      BY <1>2
    <3>4. QED  BY <3>1, <3>2, <3>3
  <2>2. /\ last' \in [active : Named, host : Named, client : Named]
        /\ profile' \in [Names -> ProfileStates]
    BY <1>3, NotedType, ProfilesParts DEF ColdTick, ProfilesInv
  <2>3. QED  BY <1>1, <1>3, <2>1, <2>2 DEF ColdTick, ProfilesInv, ProfilesTypeOK, ProfileStates
<1>4. CASE ColdStart(outcome)
  <2>1. cold' \in [job : BOOLEAN, tries : Nat, cooling : BOOLEAN, gaveUp : BOOLEAN]
    <3>1. (cold.gaveUp \/ (outcome = "raises" /\ cold.tries + 1 >= Attempts)) \in BOOLEAN
      OBVIOUS
    <3>2. QED  BY <1>2, <1>4, <3>1 DEF ColdStart
  <2>2. server' \in Named
    BY <1>4 DEF ColdStart, ProfilesInv, ProfilesTypeOK
  <2>3. QED  BY <1>1, <1>4, <2>1, <2>2 DEF ColdStart, ProfilesInv, ProfilesTypeOK
<1>5. CASE Cooled
  <2>1. cold' \in [job : BOOLEAN, tries : Nat, cooling : BOOLEAN, gaveUp : BOOLEAN]
    BY <1>2, <1>5 DEF Cooled
  <2>2. QED  BY <1>1, <1>5, <2>1 DEF Cooled, ProfilesInv, ProfilesTypeOK
<1>6. QED  BY <1>3, <1>4, <1>5

LEMMA SyncKeeps ==
    ASSUME ProfilesInv, NEW works \in BOOLEAN, SyncTick(works) \/ SyncUnanswered
    PROVE  ProfilesInv' /\ desired' = desired
<1> DEFINE Services == [active : BOOLEAN, stoppedFor : BOOLEAN, known : BOOLEAN, cut : BOOLEAN]
<1>1. RequestsAimed /\ UNCHANGED request => RequestsAimed'
  BY DEF RequestsAimed, WellAimed
<1>2. service \in Services /\ StopService \in Services
  BY ProfilesParts DEF ProfilesInv, StopService
<1>3. ASSUME SyncFromCache PROVE service' \in Services /\ UNCHANGED <<last, profile>>
  BY <1>2, <1>3 DEF SyncFromCache
<1>4. ASSUME SyncWithTarget(works), server # None
      PROVE  /\ service' \in Services
             /\ last' \in [active : Named, host : Named, client : Named]
             /\ profile' \in [Names -> ProfileStates]
  <2>1. profile[server].remote \in BOOLEAN
    BY <1>4, ProfilesParts DEF ProfilesInv, Named, ProfileStates
  <2>2. [StopService EXCEPT !.known = TRUE] \in Services
    BY <1>2
  <2>3. [service EXCEPT !.known = profile[server].remote] \in Services
    BY <1>2, <2>1
  <2>4. \A s \in Services :
            [s EXCEPT !.active = @ \/ works, !.stoppedFor = FALSE, !.cut = FALSE] \in Services
    OBVIOUS
  <2>5. service' \in Services
    BY <1>4, <2>2, <2>3, <2>4 DEF SyncWithTarget
  <2>6. QED  BY <1>4, <2>5, NotedType DEF SyncWithTarget, ProfilesInv
<1>5. /\ service' \in Services
      /\ last' \in [active : Named, host : Named, client : Named]
      /\ profile' \in [Names -> ProfileStates]
  BY <1>3, <1>4, ProfilesParts DEF SyncTick, SyncUnanswered, ProfilesInv
<1>6. QED
  BY <1>1, <1>5 DEF SyncTick, SyncUnanswered, ProfilesInv, ProfilesTypeOK, ProfileStates

LEMMA RestartKeeps ==
    ASSUME ProfilesInv, ProfilesRestart, server' \in Named
    PROVE  ProfilesInv' /\ desired' = desired
<1>1. request' \in [Requests -> RequestStates] /\ RequestsAimed'
  <2>1. Idle \in RequestStates /\ WellAimed(Idle)
    BY DEF Idle, RequestStates, Named, WellAimed
  <2>2. \A r \in Requests : request'[r] = Idle
    BY DEF ProfilesRestart
  <2>3. QED  BY <2>1, <2>2 DEF ProfilesRestart, RequestsAimed, WellAimed
<1>2. cold' \in [job : BOOLEAN, tries : Nat, cooling : BOOLEAN, gaveUp : BOOLEAN]
  BY DEF ProfilesRestart
<1>3. QED
  BY <1>1, <1>2 DEF ProfilesRestart, Persisted, ProfilesInv, ProfilesTypeOK, RequestStates

----------------------------------------------------------------------------
(* The guiding watchdog.                                                   *)
LEMMA HoldKeeps ==
    ASSUME HoldTypeOK, driver \in DriverStates,
           HoldTick \/ RestOver \/ AlignTurns \/ \E state \in {"guiding", "safe", "silent"} : EkosTurns(state)
    PROVE  HoldTypeOK' /\ driver' \in DriverStates
<1>1. Believed \in BOOLEAN
  BY DEF Believed, Adopts, HoldTypeOK, DriverStates
<1>2. ASSUME NEW on \in BOOLEAN, SetHold(on)
      PROVE  held' \in BOOLEAN /\ driver' \in DriverStates
  BY <1>1, <1>2 DEF SetHold, DriverStates
<1>3. CASE HoldTick
  <2>1. held' \in BOOLEAN /\ driver' \in DriverStates
    BY <1>1, <1>2, <1>3 DEF HoldTick, LeaveHold
  <2>2. idle' \in {"no", "since", "over"}
    BY <1>3 DEF HoldTick, HoldTypeOK
  <2>3. QED  BY <1>3, <2>1, <2>2 DEF HoldTick, HoldTypeOK
<1>4. CASE RestOver \/ AlignTurns \/ \E state \in {"guiding", "safe", "silent"} : EkosTurns(state)
  BY <1>4 DEF RestOver, AlignTurns, EkosTurns, HoldTypeOK
<1>5. QED  BY <1>3, <1>4

----------------------------------------------------------------------------
(* The readiness watchdog's tick.                                          *)
LEMMA Limits == Fails \in Nat /\ Fails > 0 /\ Restarts \in Nat /\ Restarts > 0
BY ReadinessAssumption

ReadinessInv == ReadinessTypeOK /\ CoupleWished

LEMMA OnceType ==
    ASSUME NEW n \in 0..Fails
    PROVE  Once(n) \in 0..Fails /\ 0 \in 0..Fails
BY Limits DEF Once

LEMMA PollKeeps ==
    ASSUME ReadinessInv, Poll \/ PollDevices
    PROVE  ReadinessInv'
<1>1. CASE Poll
  <2>1. seen' \in Snapshots
    BY <1>1 DEF Poll, Snapshots, Halves, ReadinessInv, ReadinessTypeOK, DriverStates
  <2>2. QED  BY <1>1, <2>1 DEF Poll, ReadinessInv, ReadinessTypeOK, CoupleWished, linkVars
<1>2. CASE PollDevices
  <2>1. seen' = None \/ seen' \in Snapshots
    <3>1. seen.connected \in BOOLEAN /\ seen.mode \in Modes /\ seen.link \in {None, Mount}
      BY <1>2 DEF PollDevices, Halves
    <3>2. devices.mount \in BOOLEAN /\ (devices.pifinder # "off") \in BOOLEAN
      BY DEF ReadinessInv, ReadinessTypeOK
    <3>3. QED  BY <1>2, <3>1, <3>2 DEF PollDevices, Snapshots
  <2>2. QED  BY <1>2, <2>1 DEF PollDevices, ReadinessInv, ReadinessTypeOK, CoupleWished, linkVars
<1>3. QED  BY <1>1, <1>2

LEMMA HealKeeps ==
    ASSUME ReadinessInv, NEW asked \in BOOLEAN, NEW shadow \in BOOLEAN, Heal(asked, shadow)
    PROVE  ReadinessInv'
<1> DEFINE Wishes == [mount : {None, Mount}, mode : {None} \cup Modes, connected : {"any", "yes", "no"}]
<1>1. Wish(asked) \in Wishes /\ Wish(asked).mode = desired.mode
  BY DEF Wish, ReadinessInv, ReadinessTypeOK
<1>2. count \in [Checks -> 0..Fails] /\ 0 \in 0..Fails
  BY Limits DEF ReadinessInv, ReadinessTypeOK
<1>3. Due(asked, shadow) \in Repairs \cup {"done"}
      /\ (Due(asked, shadow) = "couple" => desired.mode \in Modes)
  BY DEF Due, Repairs, ReadinessInv, ReadinessTypeOK
<1>4. ASSUME HealSilent(asked)
      PROVE  /\ count' \in [Checks -> 0..Fails] /\ restarts' \in 0..Restarts /\ gaveUp' \in BOOLEAN
             /\ job' = job \/ job' = "restart"
  <2>1. Once(count["running"]) \in 0..Fails
    BY <1>2, OnceType DEF Checks
  <2>2. count' \in [Checks -> 0..Fails]
    BY <1>2, <1>4, <2>1 DEF HealSilent
  <2>3. restarts' \in 0..Restarts
    BY <1>4, Limits DEF HealSilent, ReadinessInv, ReadinessTypeOK
  <2>4. gaveUp' \in BOOLEAN
    BY <1>4 DEF HealSilent, ReadinessInv, ReadinessTypeOK
  <2>5. job' = job \/ job' = "restart"
    BY <1>4 DEF HealSilent, Trigger
  <2>6. QED  BY <2>2, <2>3, <2>4, <2>5
<1>5. ASSUME NEW repair \in Repairs \cup {"done"}, HealFound(asked, repair)
      PROVE  /\ count' \in [Checks -> 0..Fails] /\ restarts' = restarts /\ gaveUp' \in BOOLEAN
             /\ job' = job \/ (job' = repair /\ repair # "done")
  <2>1. Once(count["desync"]) \in 0..Fails /\ Once(count["follow"]) \in 0..Fails
    BY <1>2, OnceType DEF Checks
  <2>2. count' \in [Checks -> 0..Fails]
    BY <1>2, <1>5, <2>1 DEF HealFound
  <2>3. restarts' = restarts /\ gaveUp' \in BOOLEAN
    BY <1>5 DEF HealFound
  <2>4. job' = job \/ (job' = repair /\ repair # "done")
    BY <1>5 DEF HealFound, Trigger
  <2>5. QED  BY <2>2, <2>3, <2>4
<1>6. /\ desired' \in Wishes /\ desired'.mode = desired.mode
      /\ count' \in [Checks -> 0..Fails] /\ restarts' \in 0..Restarts /\ gaveUp' \in BOOLEAN
      /\ job' \in Repairs /\ (job' = "couple" => desired.mode \in Modes)
  BY <1>1, <1>2, <1>3, <1>4, <1>5 DEF Heal, ReadinessInv, ReadinessTypeOK, CoupleWished, Repairs
<1>7. /\ UNCHANGED <<driver, devices, listed, sim, starts, healed, rejob, rejoined, assumed>>
      /\ seen' = None
  BY DEF Heal, linkVars
<1>8. QED  BY <1>6, <1>7 DEF ReadinessInv, ReadinessTypeOK, CoupleWished

(* The repairs, in their thread: what is linked and what is coupled then   *)
(* is what is wished for then.                                             *)
LEMMA RepairKeeps ==
    ASSUME ReadinessInv, NEW saved \in BOOLEAN,
           DriverRestarts(saved) \/ RestartFails \/ BridgeRepair \/ OtherRepair \/ FollowRepair
    PROVE  ReadinessInv'
<1> DEFINE Wishes == [mount : {None, Mount}, mode : {None} \cup Modes, connected : {"any", "yes", "no"}]
<1>1. job' = "none" /\ UNCHANGED <<seen, count, restarts, gaveUp, linkVars>>
  BY DEF DriverRestarts, RestartFails, BridgeRepair, OtherRepair, FollowRepair, Repaired
<1>2. driver \in DriverStates /\ desired \in Wishes
  BY DEF ReadinessInv, ReadinessTypeOK
<1>3. CASE DriverRestarts(saved)
  <2>1. driver' \in DriverStates
    BY <1>2, <1>3 DEF DriverRestarts, DriverStates
  <2>2. QED  BY <1>1, <1>3, <2>1 DEF DriverRestarts, ReadinessInv, ReadinessTypeOK, CoupleWished, Repairs, linkVars
<1>4. CASE RestartFails
  BY <1>1, <1>4 DEF RestartFails, ReadinessInv, ReadinessTypeOK, CoupleWished, Repairs, linkVars
<1>5. CASE BridgeRepair
  <2>1. Connected \in DriverStates /\ [driver EXCEPT !.mount = desired.mount] \in DriverStates
    BY <1>2 DEF Connected, DriverStates
  <2>2. job \in {"couple", "default"} =>
            [driver EXCEPT !.mode = IF job = "couple" THEN desired.mode ELSE "verify"] \in DriverStates
    BY <1>2 DEF DriverStates, Modes, ReadinessInv, CoupleWished
  <2>3. driver' \in DriverStates
    BY <1>2, <1>5, <2>1, <2>2 DEF BridgeRepair
  <2>4. desired' \in Wishes
    BY <1>2, <1>5 DEF BridgeRepair, Modes
  <2>5. QED
    BY <1>1, <1>5, <2>3, <2>4
    DEF BridgeRepair, ReadinessInv, ReadinessTypeOK, CoupleWished, Repairs, linkVars
<1>6. CASE OtherRepair
  <2>1. listed' \subseteq {"bridge", "mount"}
    BY <1>6 DEF OtherRepair, ReadinessInv, ReadinessTypeOK
  <2>2. devices' \in [pifinder : {"off", "live", "stale"}, mount : BOOLEAN]
    BY <1>6 DEF OtherRepair, ReadinessInv, ReadinessTypeOK
  <2>3. QED
    BY <1>1, <1>6, <2>1, <2>2
    DEF OtherRepair, ReadinessInv, ReadinessTypeOK, CoupleWished, Repairs, linkVars
<1>7. CASE FollowRepair
  <2>1. sim' \in BOOLEAN
    BY <1>7 DEF FollowRepair, ReadinessInv, ReadinessTypeOK
  <2>2. QED
    BY <1>1, <1>7, <2>1
    DEF FollowRepair, ReadinessInv, ReadinessTypeOK, CoupleWished, Repairs, linkVars
<1>8. QED  BY <1>3, <1>4, <1>5, <1>6, <1>7

LEMMA WindowKeeps ==
    ASSUME ReadinessInv, WindowPasses
    PROVE  ReadinessInv'
<1>1. restarts' \in 0..Restarts
  BY Limits DEF WindowPasses, ReadinessInv, ReadinessTypeOK
<1>2. QED  BY <1>1 DEF WindowPasses, ReadinessInv, ReadinessTypeOK, CoupleWished, linkVars

(* The reconnect of PiFinder LX200.                                        *)
LEMMA LinkKeeps ==
    ASSUME ReadinessInv,
           \/ ReconnectTick \/ Rejoin \/ Confirm \/ ReconnectFails \/ PiFinderRestarts
           \/ /\ devices' = [devices EXCEPT !.pifinder = "off"]
              /\ UNCHANGED linkVars /\ Reconnecting
    PROVE  ReadinessInv'
<1>1. UNCHANGED <<desired, driver, listed, sim, seen, count, restarts, gaveUp, job>>
  BY DEF ReconnectTick, Rejoin, Confirm, ReconnectFails, PiFinderRestarts, Reconnecting
<1>2. devices' \in [pifinder : {"off", "live", "stale"}, mount : BOOLEAN]
  <2>1. devices \in [pifinder : {"off", "live", "stale"}, mount : BOOLEAN]
    BY DEF ReadinessInv, ReadinessTypeOK
  <2>2. /\ [devices EXCEPT !.pifinder = "off"] \in [pifinder : {"off", "live", "stale"}, mount : BOOLEAN]
        /\ [devices EXCEPT !.pifinder = "live"] \in [pifinder : {"off", "live", "stale"}, mount : BOOLEAN]
        /\ [devices EXCEPT !.pifinder = IF @ = "live" THEN "stale" ELSE @]
              \in [pifinder : {"off", "live", "stale"}, mount : BOOLEAN]
    BY <2>1
  <2>3. QED  BY <2>1, <2>2 DEF ReconnectTick, Rejoin, Confirm, ReconnectFails, PiFinderRestarts
<1>3. /\ starts' \in Nat /\ healed' \in Nat \cup {None} /\ rejob' \in Nat \cup {None}
      /\ rejoined' \in BOOLEAN /\ assumed' \in BOOLEAN
  <2>1. /\ starts \in Nat /\ healed \in Nat \cup {None} /\ rejob \in Nat \cup {None}
        /\ rejoined \in BOOLEAN /\ assumed \in BOOLEAN
    BY DEF ReadinessInv, ReadinessTypeOK
  <2>2. CASE ReconnectTick
    <3>1. assumed' \in BOOLEAN
      BY <2>1, <2>2 DEF ReconnectTick
    <3>2. QED  BY <2>1, <2>2, <3>1 DEF ReconnectTick
  <2>3. CASE Rejoin
    BY <2>1, <2>3 DEF Rejoin
  <2>4. CASE Confirm
    BY <2>1, <2>4 DEF Confirm, HealsFor
  <2>5. CASE ReconnectFails
    BY <2>1, <2>5 DEF ReconnectFails
  <2>6. CASE PiFinderRestarts
    BY <2>1, <2>6 DEF PiFinderRestarts
  <2>7. QED  BY <2>1, <2>2, <2>3, <2>4, <2>5, <2>6 DEF linkVars
<1>4. QED  BY <1>1, <1>2, <1>3 DEF ReadinessInv, ReadinessTypeOK, CoupleWished

(* The user's handlers.                                                    *)
LEMMA UserKeeps ==
    ASSUME ReadinessInv, NEW mode \in Modes, NEW mount \in {None, Mount},
           \/ UserCouples(mode) \/ UserAborts \/ UserLinks(mount) \/ UserConnects
           \/ UserConnectsPiFinder \/ UserDisconnects
    PROVE  ReadinessInv'
<1> DEFINE Wishes == [mount : {None, Mount}, mode : {None} \cup Modes, connected : {"any", "yes", "no"}]
<1> DEFINE Devices == [pifinder : {"off", "live", "stale"}, mount : BOOLEAN]
<1>1. UNCHANGED <<listed, sim, seen, count, restarts, gaveUp, job, linkVars>>
  BY DEF UserCouples, UserAborts, UserLinks, UserConnects, UserConnectsPiFinder, UserDisconnects, Chosen
<1>2. driver \in DriverStates /\ desired \in Wishes /\ devices \in Devices /\ "off" \in Modes
  BY DEF ReadinessInv, ReadinessTypeOK, Modes
<1>3. desired' \in Wishes /\ (desired'.mode = desired.mode \/ desired'.mode \in Modes)
  BY <1>2
  DEF UserCouples, UserAborts, UserLinks, UserConnects, UserConnectsPiFinder, UserDisconnects
<1>4. driver' \in DriverStates
  <2>1. CASE UserConnects
    <3>1. Connected \in DriverStates
      BY <1>2 DEF Connected, DriverStates
    <3>2. \A connects \in BOOLEAN, link \in {driver.mount, None} :
              [driver EXCEPT !.state = "ready", !.connected = connects, !.mount = link, !.hold = FALSE]
                  \in DriverStates
      BY <1>2 DEF DriverStates
    <3>3. QED  BY <1>2, <2>1, <3>1, <3>2 DEF UserConnects
  <2>2. CASE UserCouples(mode) \/ UserAborts
    BY <1>2, <2>2 DEF UserCouples, UserAborts, DriverStates
  <2>3. CASE UserLinks(mount)
    BY <1>2, <2>3 DEF UserLinks, DriverStates
  <2>4. CASE UserConnectsPiFinder \/ UserDisconnects
    BY <1>2, <2>4 DEF UserConnectsPiFinder, UserDisconnects, DriverStates
  <2>5. QED  BY <2>1, <2>2, <2>3, <2>4
<1>5. devices' \in Devices
  <2>1. CASE UserConnects
    <3>1. devices' = devices \/ devices' = [pifinder |-> "off", mount |-> FALSE]
      BY <2>1 DEF UserConnects
    <3>2. [pifinder |-> "off", mount |-> FALSE] \in Devices
      OBVIOUS
    <3>3. QED  BY <1>2, <3>1, <3>2
  <2>2. CASE UserConnectsPiFinder
    <3>1. PICK state \in {"off", "live", "stale"} : devices' = [devices EXCEPT !.pifinder = state]
      BY <2>2 DEF UserConnectsPiFinder
    <3>2. QED  BY <1>2, <3>1
  <2>3. CASE UserCouples(mode) \/ UserAborts \/ UserLinks(mount) \/ UserDisconnects
    BY <1>2, <2>3 DEF UserCouples, UserAborts, UserLinks, UserDisconnects
  <2>4. QED  BY <2>1, <2>2, <2>3
<1>6. job' = "couple" => desired'.mode \in Modes
  BY <1>1, <1>3 DEF ReadinessInv, CoupleWished
<1>7. QED
  BY <1>1, <1>3, <1>4, <1>5, <1>6 DEF ReadinessInv, ReadinessTypeOK, CoupleWished, linkVars

(* What happens to the driver, and around it.                              *)
LEMMA HappensKeeps ==
    ASSUME ReadinessInv, Elsewhere \/ Hangs \/ Answers \/ DropsOut \/ Delisted
    PROVE  ReadinessInv'
<1>1. UNCHANGED <<desired, sim, seen, count, restarts, gaveUp, job, linkVars>>
  BY DEF Elsewhere, Hangs, Answers, DropsOut, Delisted, Happens
<1>2. driver' \in DriverStates
  BY DEF Elsewhere, Hangs, Answers, DropsOut, Delisted, DriverStates, ReadinessInv, ReadinessTypeOK
<1>3. devices' \in [pifinder : {"off", "live", "stale"}, mount : BOOLEAN]
  BY DEF Elsewhere, Hangs, Answers, DropsOut, Delisted, ReadinessInv, ReadinessTypeOK
<1>4. listed' \subseteq {"bridge", "mount"}
  BY DEF Elsewhere, Hangs, Answers, DropsOut, Delisted, ReadinessInv, ReadinessTypeOK
<1>5. QED
  BY <1>1, <1>2, <1>3, <1>4 DEF ReadinessInv, ReadinessTypeOK, CoupleWished, linkVars

----------------------------------------------------------------------------
(* The watchdogs together.  What the profiles do to the driver is to take  *)
(* it down and up.                                                         *)
LEMMA WishKept ==
    ASSUME ReadinessInv, NEW wish \in {"no", "any"},
           desired' = desired \/ desired' = [desired EXCEPT !.connected = wish],
           UNCHANGED <<listed, sim, seen, count, restarts, gaveUp, job, linkVars>>,
           driver' \in DriverStates, devices' \in [pifinder : {"off", "live", "stale"}, mount : BOOLEAN]
    PROVE  ReadinessInv'
<1>1. /\ desired' \in [mount : {None, Mount}, mode : {None} \cup Modes, connected : {"any", "yes", "no"}]
      /\ desired'.mode = desired.mode
  BY DEF ReadinessInv, ReadinessTypeOK
<1>2. QED  BY <1>1 DEF ReadinessInv, ReadinessTypeOK, CoupleWished, linkVars

LEMMA WithDriverKeeps ==
    ASSUME ReadinessInv, WithDriver, NEW wish \in {"no", "any"},
           desired' = desired \/ desired' = [desired EXCEPT !.connected = wish]
    PROVE  ReadinessInv'
<1>1. driver \in DriverStates /\ devices \in [pifinder : {"off", "live", "stale"}, mount : BOOLEAN]
  BY DEF ReadinessInv, ReadinessTypeOK
<1>2. ASSUME NEW auto \in BOOLEAN, ServerGone \/ ServerBack(auto)
      PROVE  driver' \in DriverStates /\ devices' \in [pifinder : {"off", "live", "stale"}, mount : BOOLEAN]
  <2>1. CASE ServerGone
    BY <1>1, <2>1 DEF ServerGone, DriverStates
  <2>2. CASE ServerBack(auto)
    BY <1>1, <2>2 DEF ServerBack, DriverStates
  <2>3. QED  BY <1>2, <2>1, <2>2
<1>3. driver' \in DriverStates /\ devices' \in [pifinder : {"off", "live", "stale"}, mount : BOOLEAN]
  BY <1>1, <1>2 DEF WithDriver
<1>4. QED  BY <1>3, WishKept DEF WithDriver

LEMMA MaintainingKeeps ==
    ASSUME ProfilesInv, ReadinessInv, Maintaining, WithDriver
    PROVE  ProfilesInv' /\ ReadinessInv'
<1>1. CASE MaintenanceOn \/ \E started \in BOOLEAN : MaintenanceOff(started)
  BY <1>1, MaintenanceKeeps, WithDriverKeeps
<1>2. CASE maintenance.on /\ server = None /\ \E p \in Names : ServerSet(p)
  <2>1. ProfilesInv' /\ desired' = desired
    BY <1>2, SetKeeps DEF Named
  <2>2. QED  BY <2>1, WithDriverKeeps
<1>3. QED  BY <1>1, <1>2 DEF Maintaining

(* A restart of the Control Center forgets what the watchdogs were at.     *)
LEMMA CenterKeeps ==
    ASSUME WatchdogInv, CenterRestarts
    PROVE  WatchdogInv'
<1>1. ProfilesInv' /\ desired' = desired
  BY RestartKeeps DEF CenterRestarts, WatchdogInv, ProfilesInv, ProfilesTypeOK
<1>2. HoldTypeOK'
  BY DEF CenterRestarts, HoldRestart, HoldTypeOK, WatchdogInv
<1>3. ReadinessInv'
  <2>1. count' \in [Checks -> 0..Fails] /\ 0 \in 0..Restarts
    BY Limits DEF CenterRestarts, ReadinessRestart
  <2>2. QED
    BY <1>1, <2>1
    DEF CenterRestarts, ReadinessRestart, ReadinessInv, ReadinessTypeOK, CoupleWished, Repairs,
        WatchdogInv
<1>4. QED  BY <1>1, <1>2, <1>3 DEF WatchdogInv, ProfilesInv, ReadinessInv

LEMMA HealingKeeps ==
    ASSUME ReadinessInv, Healing \/ Relinking
    PROVE  ReadinessInv'
BY PollKeeps, HealKeeps, RepairKeeps, WindowKeeps, LinkKeeps DEF Healing, Relinking

(* What one part leaves alone stays as it is.                              *)
LEMMA Apart ==
    /\ ProfilesInv /\ UNCHANGED profileVars => ProfilesInv'
    /\ HoldTypeOK /\ UNCHANGED holdVars => HoldTypeOK'
BY DEF ProfilesInv, ProfilesTypeOK, RequestsAimed, WellAimed, profileVars, HoldTypeOK, holdVars

LEMMA PartsInv ==
    /\ WatchdogInv <=> ProfilesInv /\ HoldTypeOK /\ ReadinessInv
    /\ WatchdogInv' <=> ProfilesInv' /\ HoldTypeOK' /\ ReadinessInv'
BY DEF WatchdogInv, ProfilesInv, ReadinessInv

LEMMA DriverKeeps ==
    ASSUME WatchdogInv, AboutDriver
    PROVE  WatchdogInv'
<1>1. ASSUME DriverActs PROVE WatchdogInv'
  <2>1. ReadinessInv'
    <3>1. "off" \in Modes
      BY DEF Modes
    <3>2. QED  BY <1>1, <3>1, UserKeeps, LinkKeeps, RepairKeeps, HappensKeeps, PartsInv DEF DriverActs
  <2>2. QED  BY <1>1, <2>1, Apart, PartsInv DEF DriverActs
<1>2. ASSUME Maintaining, WithDriver, UNCHANGED holdVars PROVE WatchdogInv'
  BY <1>2, MaintainingKeeps, Apart, PartsInv
<1>3. ASSUME Healing, UNCHANGED <<profileVars, holdVars>> PROVE WatchdogInv'
  BY <1>3, HealingKeeps, Apart, PartsInv
<1>4. QED  BY <1>1, <1>2, <1>3, CenterKeeps DEF AboutDriver

LEMMA GuidingKeeps ==
    ASSUME WatchdogInv, AboutGuiding
    PROVE  WatchdogInv'
<1>1. ASSUME Hangs \/ Answers \/ UserConnects \/ UserDisconnects \/ RestartFails,
             UNCHANGED <<profileVars, holdVars>>
      PROVE  WatchdogInv'
  <2>1. "off" \in Modes
    BY DEF Modes
  <2>2. ReadinessInv'
    BY <1>1, <2>1, UserKeeps, RepairKeeps, HappensKeeps, PartsInv
  <2>3. QED  BY <1>1, <2>2, Apart, PartsInv
<1>2. ASSUME HoldTick \/ RestOver \/ AlignTurns \/ \E state \in {"guiding", "safe", "silent"} : EkosTurns(state),
             ReadinessRest, UNCHANGED profileVars
      PROVE  WatchdogInv'
  <2>1. HoldTypeOK' /\ driver' \in DriverStates
    BY <1>2, HoldKeeps DEF WatchdogInv, ReadinessTypeOK
  <2>2. ReadinessInv'
    BY <1>2, <2>1, PartsInv DEF ReadinessRest, ReadinessInv, ReadinessTypeOK, CoupleWished, linkVars
  <2>3. QED  BY <1>2, <2>1, <2>2, Apart, PartsInv
<1>3. ASSUME Healing, UNCHANGED <<profileVars, holdVars>> PROVE WatchdogInv'
  BY <1>3, HealingKeeps, Apart, PartsInv
<1>4. QED
  BY <1>1, <1>2, <1>3, CenterKeeps DEF AboutGuiding, GuidingActs, Guarding

LEMMA RelinkKeeps ==
    ASSUME WatchdogInv, AboutLink
    PROVE  WatchdogInv'
<1>1. ASSUME LinkActs, UNCHANGED <<profileVars, holdVars>> PROVE WatchdogInv'
  <2>1. "off" \in Modes
    BY DEF Modes
  <2>2. ReadinessInv'
    BY <1>1, <2>1, LinkKeeps, UserKeeps, PartsInv DEF LinkActs
  <2>3. QED  BY <1>1, <2>2, Apart, PartsInv
<1>2. ASSUME Maintaining, WithDriver, UNCHANGED holdVars PROVE WatchdogInv'
  BY <1>2, MaintainingKeeps, Apart, PartsInv
<1>3. ASSUME Healing \/ Relinking, UNCHANGED <<profileVars, holdVars>> PROVE WatchdogInv'
  BY <1>3, HealingKeeps, Apart, PartsInv
<1>4. QED  BY <1>1, <1>2, <1>3, CenterKeeps DEF AboutLink

(* Whatever requests, ticks and the world do to the profiles.              *)
LEMMA ProfileMoves ==
    ASSUME ProfilesInv, ProfileActs \/ ProfileSteps \/ ServiceActs \/ ServiceSteps
    PROVE  /\ ProfilesInv'
           /\ \/ desired' = desired
              \/ \E wish \in {"no", "any"} : desired' = [desired EXCEPT !.connected = wish]
<1> DEFINE Goal == /\ ProfilesInv'
                   /\ \/ desired' = desired
                      \/ \E wish \in {"no", "any"} : desired' = [desired EXCEPT !.connected = wish]
<1>1. ASSUME NEW r \in Requests, NEW p \in Names, NEW changed \in BOOLEAN,
             RememberProfile(r, p) \/ ChangeDrivers(r, p) \/ ClientSwitch(r, changed)
      PROVE  Goal
  BY <1>1, BeginKeeps
<1>2. ASSUME NEW r \in Requests, HostProfile(r)
      PROVE  Goal
  <2>1. ClientProfile \in Names /\ TRUE \in BOOLEAN
    BY ProfilesAssumption
  <2>2. QED  BY <1>2, <2>1, BeginKeeps
<1>3. ASSUME NEW r \in Requests, Refused(r) \/ HalfRecreated(r) \/ Finished(r) \/ Hopeless(r)
      PROVE  Goal
  BY <1>3, EndKeeps
<1>4. ASSUME NEW r \in Requests, NEW d \in {"bridge", "remote"}, Stopped(r) \/ Changed(r, d) \/ Started(r)
      PROVE  Goal
  BY <1>4, StepKeeps
<1>5. ASSUME NEW p \in Named, NEW choice \in {None, "host", "client"}, NEW on \in BOOLEAN,
             ServerSet(p) \/ RoleChosen(choice) \/ StopForRemote \/ ServiceSet(on)
      PROVE  Goal
  BY <1>5, SetKeeps
<1>6. ASSUME NEW started \in BOOLEAN, MaintenanceOn \/ MaintenanceOff(started)
      PROVE  Goal
  BY <1>6, MaintenanceKeeps
<1>7. ASSUME NEW outcome, ColdTick \/ ColdStart(outcome) \/ Cooled
      PROVE  Goal
  BY <1>7, ColdKeeps
<1>8. ASSUME NEW works \in BOOLEAN, SyncTick(works) \/ SyncUnanswered
      PROVE  Goal
  BY <1>8, SyncKeeps
<1>9. ASSUME Booted \/ (ProfilesRestart /\ UNCHANGED server)
      PROVE  Goal
  <2>1. ProfilesRestart /\ server' \in Named
    BY <1>9 DEF Booted, Named, ProfilesInv, ProfilesTypeOK
  <2>2. QED  BY <2>1, RestartKeeps
<1>10. None \in Named /\ TRUE \in BOOLEAN /\ FALSE \in BOOLEAN /\ None \in {None, "host", "client"}
       /\ "bridge" \in {"bridge", "remote"} /\ "remote" \in {"bridge", "remote"}
       /\ ClientProfile \in Names
  BY ProfilesAssumption DEF Named
<1> HIDE DEF Goal
<1>11. ASSUME ProfileActs PROVE Goal
  BY <1>1, <1>2, <1>3, <1>5, <1>6, <1>7, <1>9, <1>10, <1>11 DEF ProfileActs
<1>12. ASSUME ProfileSteps PROVE Goal
  <2>1. CASE \E r \in Requests : Stopped(r) \/ Started(r) \/ Finished(r) \/ Hopeless(r)
    BY <1>3, <1>4, <1>10, <2>1
  <2>2. CASE \E r \in Requests, d \in {"bridge", "remote"} : Changed(r, d)
    BY <1>4, <2>2
  <2>3. CASE ColdTick \/ ColdStarts \/ Cooled
    BY <1>7, <2>3 DEF ColdStarts
  <2>4. QED  BY <1>12, <2>1, <2>2, <2>3 DEF ProfileSteps
<1>13. ASSUME ServiceActs PROVE Goal
  BY <1>1, <1>3, <1>5, <1>8, <1>9, <1>10, <1>13 DEF ServiceActs
<1>14. ASSUME ServiceSteps PROVE Goal
  BY <1>3, <1>4, <1>8, <1>10, <1>14 DEF ServiceSteps
<1>15. Goal
  BY <1>11, <1>12, <1>13, <1>14
<1>16. QED  BY <1>15 DEF Goal

LEMMA RequestedKeeps ==
    ASSUME WatchdogInv, AboutProfiles
    PROVE  WatchdogInv'
<1>1. ProfilesInv' /\ \E wish \in {"no", "any"} :
          desired' = desired \/ desired' = [desired EXCEPT !.connected = wish]
  BY ProfileMoves, PartsInv DEF AboutProfiles
<1>2. ReadinessInv'
  <2>1. UNCHANGED <<driver, devices, listed, sim, seen, count, restarts, gaveUp, job, linkVars>>
    BY DEF AboutProfiles, DriverRest
  <2>2. driver \in DriverStates /\ devices \in [pifinder : {"off", "live", "stale"}, mount : BOOLEAN]
    BY DEF WatchdogInv, ReadinessTypeOK
  <2>3. QED  BY <1>1, <2>1, <2>2, WishKept, PartsInv
<1>3. QED  BY <1>1, <1>2, Apart, PartsInv DEF AboutProfiles

----------------------------------------------------------------------------
LEMMA WatchdogInvariant == Spec => []WatchdogInv
<1>1. Init => WatchdogInv
  <2> SUFFICES ASSUME Init PROVE WatchdogInv
    OBVIOUS
  <2>1. ProfilesInv
    <3>1. PICK p \in Names : server = p /\ last = [active |-> p, host |-> p, client |-> None]
      BY DEF Init, ProfilesInit
    <3>2. request \in [Requests -> RequestStates] /\ RequestsAimed
      BY DEF Init, ProfilesInit, Idle, RequestStates, Named, RequestsAimed, WellAimed
    <3>3. profile \in [Names -> ProfileStates]
      <4>1. \A q \in Names : (q # ClientProfile) \in BOOLEAN
        OBVIOUS
      <4>2. QED  BY <4>1 DEF Init, ProfilesInit, ProfileStates
    <3>4. last \in [active : Named, host : Named, client : Named] /\ server \in Named
      BY <3>1 DEF Named
    <3>5. QED  BY <3>2, <3>3, <3>4, ProfilesParts DEF Init, ProfilesInit, ProfilesInv, Named
  <2>2. HoldTypeOK
    BY DEF Init, HoldInit, HoldTypeOK
  <2>3. ReadinessInv
    <3>1. count \in [Checks -> 0..Fails] /\ restarts \in 0..Restarts
      BY Limits DEF Init, ReadinessInit
    <3>2. desired \in [mount : {None, Mount}, mode : {None} \cup Modes, connected : {"any", "yes", "no"}]
      BY DEF Init, ReadinessInit, Modes
    <3>3. driver \in DriverStates
      <4>1. (IF desired.mode = None THEN "off" ELSE desired.mode) \in Modes
        BY <3>2 DEF Modes
      <4>2. QED  BY <4>1 DEF Init, ReadinessInit, DriverStates
    <3>4. sim \in BOOLEAN
      BY DEF Init
    <3>5. QED
      BY <3>1, <3>2, <3>3, <3>4
      DEF Init, ReadinessInit, ReadinessInv, ReadinessTypeOK, CoupleWished, Repairs
  <2>4. QED  BY <2>1, <2>2, <2>3, PartsInv
<1>2. WatchdogInv /\ [Next]_vars => WatchdogInv'
  <2> SUFFICES ASSUME WatchdogInv, [Next]_vars PROVE WatchdogInv'
    OBVIOUS
  <2>1. CASE Next
    BY <2>1, DriverKeeps, GuidingKeeps, RelinkKeeps, RequestedKeeps DEF Next
  <2>2. CASE UNCHANGED vars
    <3>1. UNCHANGED <<profileVars, holdVars, readinessVars>>
      BY <2>2 DEF vars
    <3>2. ReadinessInv'
      BY <3>1, PartsInv DEF readinessVars, ReadinessInv, ReadinessTypeOK, CoupleWished, linkVars
    <3>3. QED  BY <3>1, <3>2, Apart, PartsInv
  <2>3. QED  BY <2>1, <2>2
<1>3. QED  BY <1>1, <1>2, PTL DEF Spec

StopTypeOK == stopped \in BOOLEAN

(* The stop is pressed, or a mode chosen, in the handlers of the user; no  *)
(* watchdog notes either.                                                  *)
LEMMA StopNoted == Spec => []StopTypeOK
<1>1. Init => StopTypeOK
  BY DEF Init, StopTypeOK
<1>2. StopTypeOK /\ [Next]_vars => StopTypeOK'
  <2>1. ASSUME DriverActs PROVE stopped' \in BOOLEAN \/ UNCHANGED stopped
    BY <2>1 DEF DriverActs
  <2>2. [Next]_vars => DriverActs \/ UNCHANGED stopped
    BY DEF Next, AboutDriver, vars
  <2>3. QED  BY <2>1, <2>2 DEF StopTypeOK
<1>3. QED  BY <1>1, <1>2, PTL DEF Spec

(* Every variable of the watchdogs keeps its type: no counter of failures  *)
(* or restarts passes its limit, no driver is sent a mode nobody chose.    *)
THEOREM WatchdogsTyped == Spec => []TypeOK
<1>1. WatchdogInv /\ StopTypeOK => TypeOK
  BY DEF WatchdogInv, StopTypeOK, TypeOK
<1>2. QED  BY <1>1, WatchdogInvariant, StopNoted, PTL
=============================================================================
