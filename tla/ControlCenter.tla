---------------------------- MODULE ControlCenter ----------------------------
(***************************************************************************)
(* The Control Center's process: the lease and the admission of requests,  *)
(* the jobs that admitted requests start, and Full Simulation.             *)
(*                                                                         *)
(* A behaviour exercises one part at a time: its focus says what users and *)
(* faults touch, and Budget how often.  In "requests" the three parts meet *)
(* that meet in the code: control may change hands while a request is on   *)
(* its way, and the request then starts a job.                             *)
(***************************************************************************)
EXTENDS Admission, Jobs, FullSimulation
CONSTANTS Focus,    \* bound: the parts a behaviour may be about
          Budget,   \* bound: acts of users and faults in a behaviour
          Arrivals  \* bound: requests in a behaviour about admission

VARIABLES focus, spent

vars == <<leaseVars, admissionVars, jobVars, simulationVars, focus, spent>>

Act == spent < Budget /\ spent' = spent + 1

NoAct == UNCHANGED spent

TypeOK == LeaseTypeOK /\ AdmissionTypeOK /\ JobsTypeOK /\ SimulationTypeOK

Init ==
    /\ LeaseInit /\ AdmissionInit /\ JobsInit /\ SimulationInit
    /\ focus \in Focus /\ spent = 0

----------------------------------------------------------------------------
\* A job's scripts and threads go on by themselves.
JobSteps ==
    \/ \E k \in Scripts : \/ ScriptEnds(k) \/ ThreadGivesUp(k) \/ UnattendedEnds(k)
                          \/ \E ok \in BOOLEAN : JobOver(k, ok)
    \/ StartupTest
    \/ \E who \in {"user", "startup"}, answered \in BOOLEAN : TestOver(who, answered)
    \/ Restart
    \/ Uninstalled
    \/ RunWarns

\* The handlers of do_POST that start or stop something long.
JobRequests == \/ \E k \in Scripts : StartScript(k) \/ StartFails(k)
               \/ StartTest
               \/ RestartAsked
               \/ ShutDown
               \/ Reboot

AboutLease == LeaseNext /\ NoAct /\ UNCHANGED <<admissionVars, jobVars, simulationVars>>

Ownership == /\ \E c \in Clients : Claim(c) \/ TakeControl(c)
             /\ NoAct /\ UNCHANGED <<admissionVars, jobVars, simulationVars>>

Arriving == /\ \E h \in Handlers, c \in Clients, right \in BOOLEAN : Arrive(h, c, right)
            /\ spent < Arrivals /\ spent' = spent + 1
            /\ UNCHANGED <<leaseVars, jobVars, simulationVars>>

Admitting == /\ \/ \E h \in Handlers : Verify(h) \/ Answer(h)
                \/ \E c \in Clients : WindowEnds(c)
             /\ NoAct /\ UNCHANGED <<leaseVars, jobVars, simulationVars>>

\* The handler runs: it starts its job, or is turned away with an answer.
Handling == /\ \E h \in Handlers : Served(h)
            /\ JobRequests \/ UNCHANGED jobVars
            /\ NoAct /\ UNCHANGED <<leaseVars, simulationVars>>

Working == JobSteps /\ NoAct /\ UNCHANGED <<leaseVars, admissionVars, simulationVars>>

Asking == /\ JobRequests \/ Crash \/ ReadReport
          /\ Act /\ UNCHANGED <<leaseVars, admissionVars, simulationVars>>

SimulationActs ==
    \/ \E h \in Hosts, direction \in {"", "on", "off"} : Toggle(h, direction)
    \/ \E h \in Hosts : SeedByHand(h) \/ SeedOnce(h) \/ ClearByHand(h)
    \/ InjectorDies
    \/ SimulationRestart
    \/ \E f \in Fields, v \in {"mount", "other"} : UserSets(f, v)
    \/ SavedAlong

SimulationSteps ==
    \/ Revive \/ Launch \/ Restored \/ RestoreBroken \/ ClearLocal \/ Inject \/ ReleaseSeed
    \/ \E f \in Fields : SwapField(f) \/ RestoreField(f)
    \/ \E h \in Hosts : Drain(h)

Simulating == /\ (SimulationActs /\ Act) \/ (SimulationSteps /\ NoAct)
              /\ UNCHANGED <<leaseVars, admissionVars, jobVars>>

Next ==
    /\ \/ focus = "lease" /\ AboutLease
       \/ focus = "requests" /\ (Ownership \/ Arriving \/ Admitting \/ Handling \/ Working)
       \/ focus = "jobs" /\ (Asking \/ Working)
       \/ focus = "simulation" /\ Simulating
    /\ UNCHANGED focus

Spec == Init /\ [][Next]_vars

\* Pages beat, scripts and tests end, threads run on, watchdogs tick.
LeaseFairness ==
    /\ WF_leaseVars(focus = "lease" /\ Period)
    /\ \A c \in Clients : /\ WF_leaseVars(focus = "lease" /\ Claim(c))
                          /\ WF_leaseVars(focus = "lease" /\ Heartbeat(c))

Laboured == focus \in {"jobs", "requests"}

JobsFairness ==
    /\ \A k \in Scripts : /\ WF_jobVars(Laboured /\ ScriptEnds(k))
                          /\ WF_jobVars(Laboured /\ \E ok \in BOOLEAN : JobOver(k, ok))
    /\ WF_jobVars(Laboured /\ StartupTest)
    /\ \A who \in {"user", "startup"} :
           WF_jobVars(Laboured /\ \E answered \in BOOLEAN : TestOver(who, answered))

SimulationFairness ==
    /\ \A f \in Fields : /\ WF_simulationVars(focus = "simulation" /\ SwapField(f))
                         /\ WF_simulationVars(focus = "simulation" /\ RestoreField(f))
    /\ WF_simulationVars(focus = "simulation" /\ Launch)
    /\ WF_simulationVars(focus = "simulation" /\ (Restored \/ RestoreBroken))
    /\ WF_simulationVars(focus = "simulation" /\ ClearLocal)
    /\ WF_simulationVars(focus = "simulation" /\ Revive)

FairSpec == Spec /\ LeaseFairness /\ JobsFairness /\ SimulationFairness
=============================================================================
