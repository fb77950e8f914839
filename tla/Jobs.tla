-------------------------------- MODULE Jobs --------------------------------
(***************************************************************************)
(* The long jobs of the Control Center: set-up runs, mode switches,        *)
(* hardware tests, resets and the uninstall.  Each job has a flag, read    *)
(* and set under one lock, that keeps the others out, and a thread that    *)
(* clears it when the job's script or test is over, or when an exception   *)
(* ends its wait for the script.  Between flag and thread some handlers do *)
(* what can fail, and the flag then stays.  A run that went well restarts  *)
(* the Control Center two seconds later, as a button does at any quiet     *)
(* moment; scripts survive a restart (KillMode=process), flags do not.     *)
(***************************************************************************)
EXTENDS FiniteSets

Scripts == {"run", "mode", "reset", "uninstall"}

Kinds == Scripts \cup {"hwtest"}

VARIABLES up,        \* this Control Center is installed and runs
          flag,      \* _running, _mode_action_running, _hwtest_running, ...
          working,   \* scripts at work, each with a thread that waits for it
          deserted,  \* scripts at work whose thread gave up on them
          orphan,    \* scripts at work that outlived the process that started them
          threads,   \* jobs whose thread has not come to its end
          stuck,     \* history: jobs whose flag was set but whose thread never started
          testing,   \* hardware tests in progress: the user's, the start-up thread's
          startup,   \* where the thread _startup_hardware_test is
          retried,   \* it has run its test again, after the first one
          pending,   \* _cc_restart_pending, and the thread that sleeps on it
          warned,    \* _had_critical_warnings
          report     \* RESULT_FILE

jobVars == <<up, flag, working, deserted, orphan, threads, stuck, testing, startup, retried,
             pending, warned, report>>
scriptVars == <<working, deserted, orphan, threads, stuck>>
testVars == <<testing, startup, retried>>

JobsTypeOK ==
    /\ up \in BOOLEAN /\ retried \in BOOLEAN /\ pending \in BOOLEAN /\ warned \in BOOLEAN
    /\ flag \subseteq Kinds /\ stuck \subseteq Scripts /\ threads \subseteq Scripts
    /\ working \subseteq Scripts /\ deserted \subseteq Scripts /\ orphan \subseteq Scripts
    /\ testing \subseteq {"user", "startup"}
    /\ startup \in {"waiting", "testing", "pausing", "over"}
    /\ report \in {"none", "clean", "warned"}

\* main(): the start-up test owns the test flag from the first moment.
JobsInit ==
    /\ up = TRUE /\ flag = {"hwtest"}
    /\ working = {} /\ deserted = {} /\ orphan = {} /\ threads = {} /\ stuck = {}
    /\ testing = {} /\ startup = "waiting" /\ retried = FALSE
    /\ pending = FALSE /\ warned = FALSE /\ report = "none"

ExcludesMost(k) == IF k = "mode" THEN Kinds \ {"reset"} ELSE Kinds

\* The flags that turn job k away: all five handlers name all five.
Excludes(k) == Kinds

Accept(k) ==
    /\ up /\ flag \cap Excludes(k) = {}
    /\ flag' = flag \cup {k}
    /\ warned' = IF k = "run" THEN FALSE ELSE warned
    /\ UNCHANGED <<up, deserted, orphan, pending, report>>

\* _start_run and the handlers of a mode switch, a reset and the uninstall.
StartScript(k) ==
    /\ Accept(k)
    /\ working' = working \cup {k} /\ threads' = threads \cup {k}
    /\ UNCHANGED <<stuck, testVars>>

\* What comes between the flag and the thread fails: a run's Popen, the
\* reply to a reset or to an uninstall on a connection that is gone.
StartFails(k) ==
    /\ k # "mode" /\ Accept(k)
    /\ stuck' = stuck \cup {k}
    /\ UNCHANGED <<working, threads, testVars>>

StartTest ==
    /\ Accept("hwtest")
    /\ testing' = testing \cup {"user"}
    /\ UNCHANGED <<working, threads, stuck, startup, retried>>

AtRestButModes == flag \subseteq {"mode"}
AtRest == flag = {}

\* /api/restart_control_center
RestartAsked ==
    /\ up /\ AtRest
    /\ pending' = TRUE /\ report' = "clean"
    /\ UNCHANGED <<up, flag, scriptVars, testVars, warned>>

RunWarns ==
    /\ "run" \in working /\ ~warned
    /\ warned' = TRUE
    /\ UNCHANGED <<up, flag, scriptVars, testVars, pending, report>>

\* The script has ended; its thread (which settles, or reads the last lines)
\* still holds the flag.
ScriptEnds(k) ==
    /\ k \in working
    /\ working' = working \ {k}
    /\ UNCHANGED <<up, flag, deserted, orphan, threads, stuck, testVars, pending, warned, report>>

FinallyNothing(k) == {}

\* The flags a job's thread clears when an exception ended it.
Finally(k) == {k}

\* The thread's last step; ok: a run's exit code was 0.
JobOver(k, ok) ==
    /\ up /\ k \in threads \ working
    /\ threads' = threads \ {k}
    /\ flag' = IF ok THEN flag \ {k} ELSE flag \ Finally(k)
    /\ IF k = "run" /\ ok
       THEN pending' = TRUE /\ report' = IF warned THEN "warned" ELSE "clean"
       ELSE UNCHANGED <<pending, report>>
    /\ UNCHANGED <<up, working, deserted, orphan, stuck, testVars, warned>>

\* An exception, or the two minutes a mode switch is given, end the thread
\* while its script goes on (LOG_FILE is not writable, a line cannot be
\* decoded); there is no restart after it.
ThreadGivesUp(k) ==
    /\ k \in threads \cap working
    /\ threads' = threads \ {k} /\ flag' = flag \ Finally(k)
    /\ working' = working \ {k} /\ deserted' = deserted \cup {k}
    /\ UNCHANGED <<up, orphan, stuck, testVars, pending, warned, report>>

\* _startup_hardware_test: PiFinder answers or the wait is over; later it
\* tests again until PiFinder has answered, and takes no flag for that.
StartupTest ==
    /\ up /\ startup \in {"waiting", "pausing"}
    /\ retried' = (retried \/ startup = "pausing")
    /\ startup' = "testing" /\ testing' = testing \cup {"startup"}
    /\ UNCHANGED <<up, flag, scriptVars, pending, warned, report>>

\* _run_hardware_test's finally clears the one test flag, whoever set it.
TestOver(who, answered) ==
    /\ who \in testing
    /\ testing' = testing \ {who}
    /\ flag' = flag \ {"hwtest"}
    /\ startup' = IF who = "user" THEN startup ELSE IF answered THEN "over" ELSE "pausing"
    /\ UNCHANGED <<up, scriptVars, retried, pending, warned, report>>

\* This process ends: its flags and threads are gone, its scripts are not.
Process(alive, outliving) ==
    /\ up /\ up' = alive
    /\ orphan' = outliving
    /\ flag' = IF alive THEN {"hwtest"} ELSE {}
    /\ working' = {} /\ deserted' = {} /\ threads' = {} /\ stuck' = {} /\ testing' = {}
    /\ startup' = IF alive THEN "waiting" ELSE "over"
    /\ retried' = FALSE /\ pending' = FALSE /\ warned' = FALSE
    /\ UNCHANGED report

AllAtWork == working \cup deserted \cup orphan

\* _restart_control_center, two seconds after it was decided.
Restart == pending /\ Process(TRUE, AllAtWork)

Crash == Process(TRUE, AllAtWork)

\* /shutdown ("Close Setup") and /reboot look at the run's flag alone.
ShutDown == "run" \notin flag /\ Process(FALSE, AllAtWork)

Reboot == "run" \notin flag /\ Process(TRUE, {})

\* The uninstall script stops this very service.
Uninstalled == "uninstall" \in AllAtWork /\ Process(FALSE, AllAtWork)

\* Nobody notices.
UnattendedEnds(k) ==
    /\ k \in deserted \cup orphan
    /\ \/ k \in deserted /\ deserted' = deserted \ {k} /\ UNCHANGED orphan
       \/ k \in orphan /\ orphan' = orphan \ {k} /\ UNCHANGED deserted
    /\ UNCHANGED <<up, flag, working, threads, stuck, testVars, pending, warned, report>>

\* GET /last_run_summary: whoever asks first gets the report and removes it.
ReadReport ==
    /\ up /\ report # "none"
    /\ report' = "none"
    /\ UNCHANGED <<up, flag, scriptVars, testVars, pending, warned>>
=============================================================================
