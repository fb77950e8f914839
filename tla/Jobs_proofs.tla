----------------------------- MODULE Jobs_proofs -----------------------------
(***************************************************************************)
(* The Control Center's jobs, for every value of the constants: the jobs   *)
(* that somebody waits for exclude one another, also after starts that     *)
(* failed and threads that gave up, and a restart is decided only when     *)
(* there is none.  Neither is inductive by itself: both rest on how a      *)
(* job's script, its thread and its flag are tied together (Tied), on the  *)
(* flags being exclusive (OneFlag), and on who may be testing (TestsOwned).*)
(***************************************************************************)
EXTENDS ControlProperties, FiniteSetTheorems, TLAPS

\* A script that is waited for has its thread, and a thread its flag.
Tied == working \subseteq threads /\ threads \subseteq flag

OneFlag == \A j, k \in flag : j = k

\* Until the start-up thread repeats its test, every test is under the flag,
\* and the start-up thread is alone with its first one.
TestsOwned ==
    /\ startup = "waiting" => "hwtest" \in flag /\ testing = {}
    /\ "startup" \in testing => startup = "testing"
    /\ ~retried => /\ testing # {} => "hwtest" \in flag
                   /\ startup = "testing" => "hwtest" \in flag /\ "user" \notin testing

JobsInv == JobsTypeOK /\ Tied /\ OneFlag /\ TestsOwned

JobsStep == JobSteps \/ JobRequests \/ Crash \/ ReadReport

USE DEF jobVars, scriptVars, testVars

(* All the process does to its jobs are steps of the jobs.                 *)
LEMMA JobsOnly ==
    ASSUME [Next]_vars
    PROVE  JobsStep \/ UNCHANGED jobVars
<1>1. CASE UNCHANGED vars
  BY <1>1 DEF vars
<1>2. CASE AboutLease \/ Ownership
  BY <1>2 DEF AboutLease, Ownership
<1>3. CASE Arriving \/ Admitting
  BY <1>3 DEF Arriving, Admitting
<1>4. CASE Handling
  BY <1>4 DEF Handling, JobsStep
<1>5. CASE Working
  BY <1>5 DEF Working, JobsStep
<1>6. CASE Asking
  BY <1>6 DEF Asking, JobsStep
<1>7. CASE Simulating
  BY <1>7 DEF Simulating
<1>. QED
  BY <1>1, <1>2, <1>3, <1>4, <1>5, <1>6, <1>7 DEF Next

LEMMA JobsInitInv == JobsInit => JobsInv
BY DEF JobsInit, JobsInv, JobsTypeOK, Kinds, Scripts, Tied, OneFlag, TestsOwned

----------------------------------------------------------------------------
(* A job is accepted: its flag is the only one then, whether its thread    *)
(* starts or not.                                                          *)
LEMMA AcceptedInv ==
    ASSUME JobsInv, NEW k \in Scripts, StartScript(k) \/ StartFails(k)
    PROVE  JobsInv'
<1>. USE DEF Accept, Excludes, JobsInv, JobsTypeOK, Kinds, Scripts, Tied, OneFlag, TestsOwned
<1>1. CASE StartScript(k)
  BY <1>1 DEF StartScript
<1>2. CASE StartFails(k)
  BY <1>2 DEF StartFails
<1>. QED
  BY <1>1, <1>2

LEMMA StartTestInv ==
    ASSUME JobsInv, StartTest
    PROVE  JobsInv'
BY DEF StartTest, Accept, Excludes, JobsInv, JobsTypeOK, Kinds, Scripts, Tied, OneFlag,
       TestsOwned

(* A thread that comes to its end was the only one, and the flag with it.  *)
LEMMA LastThread ==
    ASSUME JobsInv, NEW k \in threads
    PROVE  flag = {k} /\ threads = {k} /\ "hwtest" \notin flag
<1>1. flag = {k}
  BY DEF JobsInv, Tied, OneFlag
<1>. QED
  BY <1>1 DEF JobsInv, JobsTypeOK, Scripts, Tied

(* A job ends: its script, then its thread with its flag; or the thread    *)
(* gives up first, and the script goes on unattended.                      *)
LEMMA JobEndsInv ==
    ASSUME JobsInv, NEW k \in Scripts,
           \/ ScriptEnds(k) \/ ThreadGivesUp(k) \/ UnattendedEnds(k)
           \/ \E ok \in BOOLEAN : JobOver(k, ok)
    PROVE  JobsInv'
<1>1. CASE ScriptEnds(k)
  BY <1>1 DEF ScriptEnds, JobsInv, JobsTypeOK, Tied, OneFlag, TestsOwned
<1>2. CASE UnattendedEnds(k)
  BY <1>2 DEF UnattendedEnds, JobsInv, JobsTypeOK, Tied, OneFlag, TestsOwned
<1>3. CASE ThreadGivesUp(k)
  <2>1. flag' = {} /\ threads' = {} /\ working' = {} /\ "hwtest" \notin flag
    BY <1>3, LastThread DEF ThreadGivesUp, Finally, JobsInv, Tied
  <2>2. JobsTypeOK'
    BY <1>3, <2>1 DEF ThreadGivesUp, JobsInv, JobsTypeOK
  <2>3. TestsOwned'
    BY <1>3, <2>1 DEF ThreadGivesUp, JobsInv, TestsOwned
  <2>. QED
    BY <2>1, <2>2, <2>3 DEF JobsInv, Tied, OneFlag
<1>4. ASSUME NEW ok \in BOOLEAN, JobOver(k, ok)
      PROVE  JobsInv'
  <2>1. flag' = {} /\ threads' = {} /\ working' = {} /\ "hwtest" \notin flag
    BY <1>4, LastThread DEF JobOver, Finally, JobsInv, Tied
  <2>2. JobsTypeOK'
    BY <1>4, <2>1 DEF JobOver, JobsInv, JobsTypeOK
  <2>3. TestsOwned'
    BY <1>4, <2>1 DEF JobOver, JobsInv, TestsOwned
  <2>. QED
    BY <2>1, <2>2, <2>3 DEF JobsInv, Tied, OneFlag
<1>. QED
  BY <1>1, <1>2, <1>3, <1>4

(* Tests begin and end, warnings and reports come and go.                  *)
LEMMA TestsInv ==
    ASSUME JobsInv,
           \/ StartupTest \/ RunWarns \/ ReadReport \/ RestartAsked
           \/ \E who \in {"user", "startup"}, answered \in BOOLEAN : TestOver(who, answered)
    PROVE  JobsInv'
<1>. USE DEF JobsInv, JobsTypeOK, Kinds, Scripts, Tied, OneFlag, TestsOwned
<1>1. CASE StartupTest
  BY <1>1 DEF StartupTest
<1>2. CASE RunWarns
  BY <1>2 DEF RunWarns
<1>3. CASE ReadReport
  BY <1>3 DEF ReadReport
<1>4. CASE RestartAsked
  BY <1>4 DEF RestartAsked, AtRest
<1>5. ASSUME NEW who \in {"user", "startup"}, NEW answered \in BOOLEAN, TestOver(who, answered)
      PROVE  JobsInv'
  <2>1. CASE who = "user"
    <3>1. startup # "waiting" /\ (startup = "testing" => retried)
      BY <1>5, <2>1 DEF TestOver
    <3>2. TestsOwned'
      BY <1>5, <2>1, <3>1 DEF TestOver
    <3>. QED
      BY <1>5, <2>1, <3>2 DEF TestOver
  <2>2. CASE who = "startup"
    <3>1. startup = "testing" /\ ("user" \in testing => retried)
      BY <1>5, <2>2 DEF TestOver
    <3>2. TestsOwned'
      BY <1>5, <2>2, <3>1 DEF TestOver
    <3>. QED
      BY <1>5, <2>2, <3>2 DEF TestOver
  <2>. QED
    BY <2>1, <2>2
<1>. QED
  BY <1>1, <1>2, <1>3, <1>4, <1>5

(* The process ends, and perhaps begins anew, with nothing in memory.      *)
LEMMA ProcessInv ==
    ASSUME JobsInv, NEW alive \in BOOLEAN, NEW outliving \in SUBSET Scripts,
           Process(alive, outliving)
    PROVE  JobsInv'
BY DEF Process, JobsInv, JobsTypeOK, Kinds, Scripts, Tied, OneFlag, TestsOwned

LEMMA EndsInv ==
    ASSUME JobsInv, Restart \/ Crash \/ ShutDown \/ Reboot \/ Uninstalled
    PROVE  JobsInv'
<1>1. {} \in SUBSET Scripts /\ AllAtWork \in SUBSET Scripts
  BY DEF JobsInv, JobsTypeOK, AllAtWork
<1>2. \E alive \in BOOLEAN, outliving \in SUBSET Scripts : Process(alive, outliving)
  BY <1>1 DEF Restart, Crash, ShutDown, Reboot, Uninstalled
<1>. QED
  BY <1>2, ProcessInv

(* The strengthened invariant holds in every state.                        *)
THEOREM JobsInvariant == Spec => []JobsInv
<1>1. Init => JobsInv
  BY JobsInitInv DEF Init
<1>2. JobsInv /\ [Next]_vars => JobsInv'
  <2>. SUFFICES ASSUME JobsInv, [Next]_vars
                PROVE  JobsInv'
    OBVIOUS
  <2>1. CASE JobSteps
    BY <2>1, JobEndsInv, TestsInv, EndsInv DEF JobSteps
  <2>2. CASE JobRequests
    BY <2>2, AcceptedInv, StartTestInv, TestsInv, EndsInv DEF JobRequests
  <2>3. CASE Crash \/ ReadReport
    BY <2>3, TestsInv, EndsInv
  <2>4. CASE UNCHANGED jobVars
    BY <2>4 DEF JobsInv, JobsTypeOK, Tied, OneFlag, TestsOwned
  <2>. QED
    BY <2>1, <2>2, <2>3, <2>4, JobsOnly DEF JobsStep
<1>. QED
  BY <1>1, <1>2, PTL DEF Spec

----------------------------------------------------------------------------
(* A set whose elements are all equal has at most one.                     *)
LEMMA AtMostOne ==
    ASSUME NEW S, \A x, y \in S : x = y
    PROVE  Cardinality(S) \in Nat /\ Cardinality(S) <= 1
<1>1. CASE S = {}
  BY <1>1, FS_EmptySet
<1>2. CASE S # {}
  <2>1. PICK x : x \in S
    BY <1>2
  <2>2. S = {x}
    BY <2>1
  <2>. QED
    BY <2>2, FS_Singleton
<1>. QED
  BY <1>1, <1>2

(* Two long jobs that somebody waits for never run at once, and a test     *)
(* runs beside another job or test only after the start-up thread repeated *)
(* its own.                                                                *)
THEOREM JobsAloneAlways == Spec => []JobsAlone
<1>1. JobsInv => JobsAlone
  <2>. SUFFICES ASSUME JobsInv
                PROVE  JobsAlone
    OBVIOUS
  <2>1. \A x, y \in working : x = y
    BY DEF JobsInv, Tied, OneFlag
  <2>2. Cardinality(working) <= 1
    BY <2>1, AtMostOne
  <2>3. ASSUME ~retried
        PROVE  ~(Cardinality(working \cup testing) > 1)
    <3>1. testing # {} => working = {}
      BY <2>3 DEF JobsInv, JobsTypeOK, Scripts, Tied, OneFlag, TestsOwned
    <3>2. \A x, y \in testing : x = y
      BY <2>3 DEF JobsInv, JobsTypeOK, TestsOwned
    <3>3. \A x, y \in working \cup testing : x = y
      BY <2>1, <3>1, <3>2
    <3>. QED
      BY <3>3, AtMostOne
  <2>. QED
    BY <2>2, <2>3 DEF JobsAlone
<1>. QED
  BY <1>1, JobsInvariant, PTL

(* A restart of the Control Center is decided only when no job is under    *)
(* way: by a run whose thread is the only one and ends with it, or by a    *)
(* button when no flag is set.                                             *)
THEOREM RestartDecidedAtRestAlways == Spec => RestartDecidedAtRest
<1>1. JobsInv /\ [Next]_vars => (pending' /\ ~pending => working' = {} /\ threads' = {})
  <2>. SUFFICES ASSUME JobsInv, [Next]_vars, pending', ~pending
                PROVE  working' = {} /\ threads' = {}
    OBVIOUS
  <2>1. ASSUME NEW k \in Scripts, NEW ok \in BOOLEAN, JobOver(k, ok)
        PROVE  working' = {} /\ threads' = {}
    BY <2>1, LastThread DEF JobOver, JobsInv, Tied
  <2>2. CASE RestartAsked
    BY <2>2 DEF RestartAsked, AtRest, JobsInv, Tied
  <2>3. CASE JobSteps
    <3>1. ASSUME NEW k \in Scripts, ScriptEnds(k) \/ ThreadGivesUp(k) \/ UnattendedEnds(k)
          PROVE  UNCHANGED pending
      BY <3>1 DEF ScriptEnds, ThreadGivesUp, UnattendedEnds
    <3>2. StartupTest \/ RunWarns => UNCHANGED pending
      BY DEF StartupTest, RunWarns
    <3>3. ASSUME NEW who, NEW answered, TestOver(who, answered)
          PROVE  UNCHANGED pending
      BY <3>3 DEF TestOver
    <3>4. Restart \/ Uninstalled => ~pending'
      BY DEF Restart, Uninstalled, Process
    <3>. QED
      BY <2>1, <2>3, <3>1, <3>2, <3>3, <3>4 DEF JobSteps
  <2>4. CASE JobRequests
    <3>1. ASSUME NEW k, StartScript(k) \/ StartFails(k)
          PROVE  UNCHANGED pending
      BY <3>1 DEF StartScript, StartFails, Accept
    <3>2. StartTest => UNCHANGED pending
      BY DEF StartTest, Accept
    <3>3. ShutDown \/ Reboot => ~pending'
      BY DEF ShutDown, Reboot, Process
    <3>. QED
      BY <2>2, <2>4, <3>1, <3>2, <3>3 DEF JobRequests
  <2>5. CASE Crash \/ ReadReport \/ UNCHANGED jobVars
    BY <2>5 DEF Crash, Process, ReadReport
  <2>. QED
    BY <2>3, <2>4, <2>5, JobsOnly DEF JobsStep
<1>2. UNCHANGED vars => UNCHANGED <<pending, working, threads>>
  BY DEF vars
<1>. QED
  BY <1>1, <1>2, JobsInvariant, PTL DEF Spec, RestartDecidedAtRest
=============================================================================
