------------------------------- MODULE Profiles -------------------------------
(***************************************************************************)
(* The Web Manager's profiles as the Control Center handles them: the      *)
(* switches users ask for, the maintenance mode, the start of a profile    *)
(* that went cold, and pifinder.service, which runs only while PiFinder    *)
(* LX200 is local.  What _save_mount_bridge_desired_state writes survives  *)
(* a restart of the Control Center; what it leaves in memory does not.     *)
(***************************************************************************)
EXTENDS Naturals

CONSTANTS None,
          Names,          \* bound: profiles of the Web Manager
          ClientProfile,  \* PIFINDER_CLIENT_PROFILE_NAME
          Requests,       \* bound: requests that work on profiles at once
          Attempts        \* _COLD_PROFILE_START_MAX_ATTEMPTS

ASSUME ProfilesAssumption ==
    None \notin Names /\ ClientProfile \in Names /\ Attempts \in Nat \ {0}

VARIABLES desired,      \* _mb_desired_mount, _mb_desired_coupling_mode, _mb_desired_connected
          maintenance,  \* on, and the profile and flag to go back to
          role,         \* _pifinder_role_choice
          last,         \* _last_known_active_profile, _host_profile, _client_profile
          server,       \* the profile that runs, or None
          profile,      \* whether each profile exists, what it lists, its autostart flag
          switching,    \* _profile_switch_in_progress
          request,      \* where each request that works on profiles is
          cold,         \* the start of a cold profile: its job, attempts, cooldown
          service       \* pifinder.service; stoppedFor, known: what is remembered of it;
                        \* cut: history, stopped by this program and not dealt with since

profileVars == <<maintenance, role, last, server, profile, switching, request, cold, service>>

Named == Names \cup {None}

Idle == [kind |-> "none", target |-> None, step |-> "over"]

ProfilesTypeOK ==
    /\ maintenance \in [on : BOOLEAN, profile : Named, auto : BOOLEAN]
    /\ role \in {None, "host", "client"}
    /\ last \in [active : Named, host : Named, client : Named]
    /\ server \in Named
    /\ profile \in [Names -> [there : BOOLEAN, bridge : BOOLEAN, remote : BOOLEAN, auto : BOOLEAN]]
    /\ switching \in BOOLEAN
    /\ request \in [Requests -> [kind : {"none", "remember", "host", "client", "drivers"},
                                 target : Named,
                                 step : {"stop", "edit", "change", "start", "wait", "over"}]]
    /\ cold \in [job : BOOLEAN, tries : Nat, cooling : BOOLEAN, gaveUp : BOOLEAN]
    /\ service \in [active : BOOLEAN, stoppedFor : BOOLEAN, known : BOOLEAN, cut : BOOLEAN]

\* A host that has been in use: its profile runs and has been noted.
ProfilesInit ==
    /\ maintenance = [on |-> FALSE, profile |-> None, auto |-> FALSE]
    /\ role = None
    /\ \E p \in Names \ {ClientProfile} :
           server = p /\ last = [active |-> p, host |-> p, client |-> None]
    /\ profile = [p \in Names |-> [there |-> TRUE, bridge |-> p # ClientProfile,
                                   remote |-> FALSE, auto |-> TRUE]]
    /\ switching = FALSE /\ request = [r \in Requests |-> Idle]
    /\ cold = [job |-> FALSE, tries |-> 0, cooling |-> FALSE, gaveUp |-> FALSE]
    /\ service = [active |-> TRUE, stoppedFor |-> FALSE, known |-> FALSE, cut |-> FALSE]

----------------------------------------------------------------------------
\* Switching profiles: stop the one that runs, start the other, then record.

\* What a request still has to do to have p running.
Towards(p, again) ==
    IF server = p /\ ~again THEN "wait" ELSE IF server = None THEN "start" ELSE "stop"

Begin(r, kind, p, step) ==
    /\ request[r].step = "over"
    /\ request' = [request EXCEPT ![r] = [kind |-> kind, target |-> p, step |-> step]]
    /\ switching' = (switching \/ kind # "drivers")

\* /api/remember_host_profile
RememberProfile(r, p) ==
    /\ Begin(r, "remember", p, Towards(p, FALSE))
    /\ last' = IF role = "client" THEN [last EXCEPT !.client = p] ELSE [last EXCEPT !.host = p]
    /\ UNCHANGED <<maintenance, role, server, profile, cold, service, desired>>

\* /api/pifinder_host_profile
HostProfile(r) ==
    /\ last.host # None
    /\ Begin(r, "host", last.host, Towards(last.host, FALSE))
    /\ UNCHANGED <<maintenance, role, last, server, profile, cold, service, desired>>

\* reset_client_profile_drivers, ensure_pifinder_client_profile
Minimal(p) == [profile EXCEPT ![p].there = TRUE, ![p].bridge = FALSE, ![p].remote = FALSE]

\* set_profile_autostart
Flagged(p, on) == [profile EXCEPT ![p].auto = on]

\* /api/pifinder_client_profile: the profile remembered, unless Mount Bridge
\* is in it by now; else the reserved one, with its drivers put right.
ClientSwitch(r, changed) ==
    LET kept == last.client # None /\ profile[last.client].there /\ ~profile[last.client].bridge
        p == IF kept THEN last.client ELSE ClientProfile
    IN /\ profile[p].bridge \/ ~profile[p].there => changed
       /\ Begin(r, "client", p, Towards(p, changed))
       /\ profile' = IF changed THEN Minimal(p) ELSE profile
       /\ UNCHANGED <<maintenance, role, last, server, cold, service, desired>>

\* /api/webmanager/pifinder_drivers: stops and starts, but is no switch.
ChangeDrivers(r, p) ==
    /\ profile[p].there
    /\ Begin(r, "drivers", p, IF server = p THEN "stop" ELSE "edit")
    /\ UNCHANGED <<maintenance, role, last, server, profile, cold, service, desired>>

Stopped(r) ==
    /\ request[r].step = "stop"
    /\ server' = None
    /\ request' = [request EXCEPT ![r].step = IF request[r].kind = "drivers" THEN "change" ELSE "start"]
    /\ UNCHANGED <<maintenance, role, last, profile, switching, cold, service, desired>>

\* set_pifinder_bridge, set_pifinder_lx200_state: the stopped profile lists a
\* driver more or less; one that did not run is left alone afterwards.
Changed(r, driver) ==
    /\ request[r].step \in {"edit", "change"} /\ profile[request[r].target].there
    /\ LET p == request[r].target IN
           profile' = IF driver = "bridge" THEN [profile EXCEPT ![p].bridge = ~@]
                                           ELSE [profile EXCEPT ![p].remote = ~@]
    /\ request' = [request EXCEPT ![r].step = IF @ = "change" THEN "start" ELSE "wait"]
    /\ UNCHANGED <<maintenance, role, last, server, switching, cold, service, desired>>

Started(r) ==
    /\ request[r].step = "start" /\ profile[request[r].target].there
    /\ server' = request[r].target
    /\ request' = [request EXCEPT ![r].step = "wait"]
    /\ UNCHANGED <<maintenance, role, last, profile, switching, cold, service, desired>>

SwitchLeftOpen(r) == switching

\* The finally of a switch: the flag is cleared whatever happened, also for
\* another switch that is still under way.
SwitchOver(r) == switching /\ request[r].kind = "drivers"

\* The Web Manager refused a call: the request ends with an error.
Refused(r) ==
    /\ request[r].step \in {"stop", "edit", "change", "start"}
    /\ request' = [request EXCEPT ![r] = Idle]
    /\ switching' = SwitchOver(r)
    /\ UNCHANGED <<maintenance, role, last, server, profile, cold, service, desired>>

\* ... in the middle of _recreate_profile_with_drivers, which deletes a
\* profile and makes it anew: it is gone, or it is there and lists nothing.
HalfRecreated(r) ==
    /\ request[r].step \in {"edit", "change"}
    /\ \E there \in BOOLEAN :
           profile' = [profile EXCEPT ![request[r].target] =
                          [there |-> there, bridge |-> FALSE, remote |-> FALSE, auto |-> FALSE]]
    /\ request' = [request EXCEPT ![r] = Idle]
    /\ switching' = SwitchOver(r)
    /\ UNCHANGED <<maintenance, role, last, server, cold, service, desired>>

\* Nothing can be started or changed in a profile that is gone.
Hopeless(r) == request[r].step # "over" /\ ~profile[request[r].target].there /\ Refused(r)

\* _wait_for_profile_running is over.
Finished(r) ==
    /\ request[r].step = "wait"
    /\ request' = [request EXCEPT ![r] = Idle]
    /\ switching' = SwitchOver(r)
    /\ IF request[r].kind = "client"
       THEN role' = "client" /\ last' = [last EXCEPT !.client = request[r].target]
       ELSE UNCHANGED <<role, last>>
    /\ UNCHANGED <<maintenance, server, profile, cold, service, desired>>

\* /api/webmanager/server, KStars starting its profile, indiserver failing.
ServerSet(p) ==
    /\ server' = p /\ server # p /\ (p # None => profile[p].there)
    /\ UNCHANGED <<maintenance, role, last, profile, switching, request, cold, service, desired>>

\* /api/pifinder_role_choice
RoleChosen(choice) ==
    /\ role' = choice
    /\ last' = IF server = None \/ choice = None THEN last
               ELSE IF choice = "host" THEN [last EXCEPT !.host = server]
                                       ELSE [last EXCEPT !.client = server]
    /\ UNCHANGED <<maintenance, server, profile, switching, request, cold, service, desired>>

----------------------------------------------------------------------------
\* /api/maintenance_mode_toggle

MaintenanceOn ==
    /\ ~maintenance.on
    /\ maintenance' = [on |-> TRUE, profile |-> server,
                       auto |-> server # None /\ profile[server].auto]
    /\ profile' = IF server = None THEN profile ELSE Flagged(server, FALSE)
    /\ server' \in {None, server}
    /\ desired' = [desired EXCEPT !.connected = "no"]
    /\ UNCHANGED <<role, last, switching, request, cold, service>>

\* Whether or not the profile came back, its flag is forgotten.
MaintenanceOff(started) ==
    /\ maintenance.on
    /\ LET p == maintenance.profile IN
           IF started /\ p # None /\ profile[p].there
           THEN /\ server' = p
                /\ profile' = IF maintenance.auto THEN Flagged(p, TRUE) ELSE profile
           ELSE UNCHANGED <<server, profile>>
    /\ maintenance' = [on |-> FALSE, profile |-> None, auto |-> FALSE]
    /\ desired' = [desired EXCEPT !.connected = "any"]
    /\ UNCHANGED <<role, last, switching, request, cold, service>>

----------------------------------------------------------------------------
\* _note_active_profile

Reserved(p) == p = ClientProfile \/ p = last.client

Noted ==
    LET p == server IN
    [active |-> p,
     client |-> IF role = "client" /\ ~profile[p].bridge THEN p ELSE last.client,
     host   |-> IF role # "client" /\ ~Reserved(p) THEN p ELSE last.host]

NoteActive ==
    /\ last' = Noted
    /\ profile' = IF maintenance.on THEN profile ELSE Flagged(server, TRUE)

\* _autostart_cold_profile
ColdTick ==
    /\ ~maintenance.on /\ ~switching /\ last.active # None
    /\ IF server # None
       THEN NoteActive /\ cold' = [cold EXCEPT !.tries = 0, !.gaveUp = FALSE]
       ELSE /\ ~cold.gaveUp /\ ~cold.cooling /\ ~cold.job
            /\ cold' = [cold EXCEPT !.job = TRUE]
            /\ UNCHANGED <<last, profile>>
    /\ UNCHANGED <<maintenance, role, server, switching, request, service, desired>>

\* _do_start: the profile comes up, or the call raises, or it went well and
\* nothing came up; only raised errors make it give up.
ColdStart(outcome) ==
    /\ cold.job /\ (outcome = "up" => profile[last.active].there)
    /\ LET tries == cold.tries + 1 IN
           cold' = [job |-> FALSE, tries |-> tries, cooling |-> TRUE,
                    gaveUp |-> cold.gaveUp \/ (outcome = "raises" /\ tries >= Attempts)]
    /\ server' = IF outcome = "up" THEN last.active ELSE server
    /\ UNCHANGED <<maintenance, role, last, profile, switching, request, service, desired>>

Cooled ==
    /\ cold.cooling
    /\ cold' = [cold EXCEPT !.cooling = FALSE]
    /\ UNCHANGED <<maintenance, role, last, server, profile, switching, request, service, desired>>

----------------------------------------------------------------------------
\* _pifinder_service_sync_with_lx200_target

StopService == [service EXCEPT !.active = FALSE, !.stoppedFor = TRUE, !.cut = TRUE]

\* Without an answer it goes by the remote it has on record.
SyncFromCache ==
    /\ service' = IF service.known /\ service.active THEN StopService ELSE service
    /\ UNCHANGED <<last, profile>>

\* works: systemctl does what it is told; that a start did is not looked at.
SyncWithTarget(works) ==
    LET remote == profile[server].remote
        known == [service EXCEPT !.known = remote] IN
    /\ NoteActive
    /\ service' = IF remote /\ service.active /\ works
                  THEN [StopService EXCEPT !.known = TRUE]
                  ELSE IF ~remote /\ service.stoppedFor
                  THEN [known EXCEPT !.active = @ \/ works, !.stoppedFor = FALSE, !.cut = FALSE]
                  ELSE known

SyncTick(works) ==
    /\ IF server = None THEN SyncFromCache ELSE SyncWithTarget(works)
    /\ UNCHANGED <<maintenance, role, server, switching, request, cold, desired>>

\* The Web Manager does not answer, though a profile runs.
SyncUnanswered ==
    /\ server # None /\ SyncFromCache
    /\ UNCHANGED <<maintenance, role, server, switching, request, cold, desired>>

\* /api/pifinder_service_stop_for_remote, for a remote not saved yet
StopForRemote ==
    /\ service' = StopService
    /\ UNCHANGED <<maintenance, role, last, server, profile, switching, request, cold, desired>>

\* /api/pifinder_service, or a systemctl of somebody else.
ServiceSet(active) ==
    /\ service' = [service EXCEPT !.active = active, !.cut = FALSE]
    /\ UNCHANGED <<maintenance, role, last, server, profile, switching, request, cold, desired>>

----------------------------------------------------------------------------
\* A restart of the Control Center: requests and threads are gone.
ForgetsStop == [service EXCEPT !.stoppedFor = FALSE]
Persisted == service

ProfilesRestart ==
    /\ switching' = FALSE /\ request' = [r \in Requests |-> Idle]
    /\ cold' = [job |-> FALSE, tries |-> 0, cooling |-> FALSE, gaveUp |-> FALSE]
    /\ service' = Persisted
    /\ UNCHANGED <<maintenance, role, last, profile, desired>>

\* The whole computer: the Web Manager starts a profile flagged for it.
Booted ==
    /\ ProfilesRestart
    /\ server' \in {p \in Names : profile[p].there /\ profile[p].auto} \cup {None}
=============================================================================
