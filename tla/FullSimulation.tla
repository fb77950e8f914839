---------------------------- MODULE FullSimulation ----------------------------
(***************************************************************************)
(* Full Simulation: an injector process feeds synthetic solves into a      *)
(* PiFinder, here or remote, and the optical trains of Ekos that name the  *)
(* real mount name the simulator meanwhile.  A toggle and a watchdog share *)
(* one lock; a button of the page injects by hand beside them.  PiFinder   *)
(* queues a seed and applies it on its own schedule, so a clear can come   *)
(* before the seed it was meant to clear; and no caller looks whether a    *)
(* clear came through.  The trains to give back are remembered in memory   *)
(* and on disk, where any save of the desired state, which may fail        *)
(* unnoticed, writes them.                                                 *)
(***************************************************************************)
EXTENDS FiniteSets
CONSTANTS Fields,   \* device fields of the optical trains that name the real mount
          Hosts,    \* PiFinders that can be fed
          Here,     \* the one on this device
          NoHost

ASSUME SimulationAssumption == Here \in Hosts /\ NoHost \notin Hosts /\ IsFiniteSet(Fields)

VARIABLES wanted,     \* _truth_injector_desired
          injector,   \* the host the injector process feeds, NoHost: no process
          target,     \* _truth_injector_host
          stage,      \* how far the holder of _truth_injector_lock is
          todo,       \* train fields its loop has yet to visit
          kept,       \* remembered fields it could not give back
          train,      \* what each field names
          memory,     \* _optical_train_swap_memory
          disk,       \* the same in the persisted desired state
          active,     \* hosts whose fake_solve_active is set
          queued,     \* hosts with a seed in fake_solve_command_queue
          seeding,    \* the host a one-shot seed is waiting on
          loose,      \* history: hosts injected by hand since they were last cleared, or
                      \* cleared with a seed still queued, or whose last clear failed
          swapped,    \* history: fields this program moved to the simulator
          unsaved,    \* history: of these, the ones moved since the last good save
          lost        \* history: of these, the ones unsaved when the process ended, or
                      \* whose setter timed out and took effect all the same

simulationVars == <<wanted, injector, target, stage, todo, kept, train, memory, disk,
                    active, queued, seeding, loose, swapped, unsaved, lost>>
trainVars == <<train, memory, disk, swapped, unsaved, lost>>
solveVars == <<active, queued, seeding, loose>>

Injecting == injector # NoHost

SimulationTypeOK ==
    /\ wanted \in BOOLEAN
    /\ injector \in Hosts \cup {NoHost} /\ target \in Hosts
    /\ stage \in {"free", "swap", "restore", "clear"}
    /\ todo \subseteq Fields /\ kept \subseteq Fields
    /\ train \in [Fields -> {"mount", "simulator", "other"}]
    /\ memory \subseteq Fields /\ disk \subseteq Fields
    /\ active \subseteq Hosts /\ queued \subseteq Hosts /\ seeding \in Hosts \cup {NoHost}
    /\ loose \subseteq Hosts
    /\ lost \cup unsaved \subseteq swapped /\ swapped \subseteq Fields

SimulationInit ==
    /\ wanted = FALSE /\ injector = NoHost /\ target = Here
    /\ stage = "free" /\ todo = {} /\ kept = {}
    /\ train = [f \in Fields |-> "mount"] /\ memory = {} /\ disk = {}
    /\ active = {} /\ queued = {} /\ seeding = NoHost
    /\ loose = {} /\ swapped = {} /\ unsaved = {} /\ lost = {}

\* DELETE /api/fake_solve at the hosts of set H; those in done answer.
Cleared(H) == \E done \in SUBSET H :
    /\ active' = active \ done
    /\ loose' = (loose \cup H) \ (done \ queued)

\* _save_mount_bridge_desired_state: what it cannot write it only logs.
Saved(record) ==
    \/ disk' = record /\ unsaved' = {}
    \/ UNCHANGED <<disk, unsaved>>

\* _truth_injector_start begins: a stray injector is killed, the fields are
\* visited one by one (or not at all: no mount configured, KStars away).
Begin(h) ==
    /\ stage = "free" /\ stage' = "swap"
    /\ injector' = NoHost /\ target' = h
    /\ todo' \in {{}, Fields}
    /\ UNCHANGED kept

TurnOn(h) == wanted' = TRUE /\ Begin(h) /\ UNCHANGED <<trainVars, solveVars>>

DeadAndSilent == ~Injecting /\ active = {}
Dead == ~Injecting

\* _truth_injector_watchdog: the process has died.
Revive == wanted /\ Dead /\ Begin(target) /\ UNCHANGED <<wanted, trainVars, solveVars>>

\* KStars changes a field that names one device to name another.
Renamed(f, from, to) == train[f] = from /\ train' = [train EXCEPT ![f] = to]

\* One field of _optical_train_snapshot_and_enter_sim; an error skips it.
SwapField(f) ==
    /\ stage = "swap" /\ f \in todo
    /\ todo' = todo \ {f}
    /\ \/ /\ Renamed(f, "mount", "simulator")
          /\ swapped' = swapped \cup {f}
          /\ \/ /\ memory' = memory \cup {f}
                /\ unsaved' = unsaved \cup {f} /\ lost' = lost \ {f}
             \/ lost' = lost \cup {f} /\ UNCHANGED <<memory, unsaved>>
          /\ UNCHANGED disk
       \/ UNCHANGED trainVars
    /\ UNCHANGED <<wanted, injector, target, stage, kept, solveVars>>

\* The memory is saved once, after the loop, unless something unforeseen
\* broke the loop off; then the process is started.
Launch ==
    /\ stage = "swap" /\ stage' = "free"
    /\ \/ todo = {} /\ memory # {} /\ Saved(memory)
       \/ UNCHANGED <<disk, unsaved>>
    /\ injector' = target /\ todo' = {}
    /\ UNCHANGED <<wanted, target, kept, train, memory, swapped, lost, solveVars>>

\* Whoever changes another part of the desired state saves this one too.
SavedAlong ==
    /\ disk # memory
    /\ Saved(memory)
    /\ UNCHANGED <<wanted, injector, target, stage, todo, kept, train, memory, swapped, lost, solveVars>>

\* The process is ended and waited for.
TurnOff ==
    /\ stage = "free"
    /\ wanted' = FALSE /\ injector' = NoHost
    /\ stage' = "restore" /\ todo' = memory /\ kept' = {}
    /\ UNCHANGED <<target, trainVars, solveVars>>

ShouldStop(h) == wanted \/ h \in active

\* /api/truth_injector_toggle, with a direction or without.
Toggle(h, direction) ==
    IF direction = "off" \/ (direction = "" /\ ShouldStop(h)) THEN TurnOff ELSE TurnOn(h)

\* One field of _optical_train_restore_from_sim: given back if it still names
\* the simulator, left alone if it does not, kept for later on an error.
RestoreField(f) ==
    /\ stage = "restore" /\ f \in todo
    /\ todo' = todo \ {f}
    /\ \/ /\ Renamed(f, "simulator", "mount")
          /\ swapped' = swapped \ {f} /\ kept' \in {kept, kept \cup {f}}
       \/ train[f] # "simulator" /\ UNCHANGED <<train, swapped, kept>>
       \/ kept' = kept \cup {f} /\ UNCHANGED <<train, swapped>>
    /\ lost' = lost \cap swapped' /\ unsaved' = unsaved \cap swapped'
    /\ UNCHANGED <<wanted, injector, target, stage, memory, disk, solveVars>>

NothingRemains == {}
Remaining == kept

Restored ==
    /\ stage = "restore" /\ todo = {}
    /\ memory' = Remaining
    /\ IF memory # {} THEN Saved(Remaining) ELSE UNCHANGED <<disk, unsaved>>
    /\ stage' = "clear" /\ kept' = {}
    /\ UNCHANGED <<wanted, injector, target, todo, train, swapped, lost, solveVars>>

\* Something unforeseen breaks the loop off: all stays remembered.
RestoreBroken ==
    /\ stage = "restore" /\ todo # {}
    /\ stage' = "clear" /\ todo' = {} /\ kept' = {}
    /\ UNCHANGED <<wanted, injector, target, trainVars, solveVars>>

ClearsNothing == {}

\* _truth_injector_stop clears this device's PiFinder, whatever was fed, and
\* does not look whether that worked.
ClearedByOff == {Here}

ClearLocal ==
    /\ stage = "clear" /\ stage' = "free"
    /\ Cleared(ClearedByOff)
    /\ UNCHANGED <<wanted, injector, target, todo, kept, trainVars, queued, seeding>>

\* The injector's own loop, and PiFinder's integrator draining its queue.
Inject == /\ Injecting
          /\ queued' = queued \cup {injector}
          /\ UNCHANGED <<wanted, injector, target, stage, todo, kept, trainVars,
                         active, seeding, loose>>

Drain(h) ==
    /\ h \in queued
    /\ queued' = queued \ {h} /\ active' = active \cup {h}
    /\ UNCHANGED <<wanted, injector, target, stage, todo, kept, trainVars, seeding, loose>>

InjectorDies ==
    /\ Injecting /\ injector' = NoHost
    /\ UNCHANGED <<wanted, target, stage, todo, kept, trainVars, solveVars>>

\* fake_solve_set, and fake_solve_enable_from_mount in a simulation: it stays.
SeedByHand(h) ==
    /\ queued' = queued \cup {h} /\ loose' = loose \cup {h}
    /\ UNCHANGED <<wanted, injector, target, stage, todo, kept, trainVars, active, seeding>>

\* fake_solve_enable_from_mount beside a real camera: seed, wait up to two
\* seconds for it to show, release either way.
SeedOnce(h) ==
    /\ seeding = NoHost /\ seeding' = h
    /\ queued' = queued \cup {h} /\ loose' = loose \cup {h}
    /\ UNCHANGED <<wanted, injector, target, stage, todo, kept, trainVars, active>>

ReleaseSeed ==
    /\ seeding # NoHost /\ seeding' = NoHost
    /\ Cleared({seeding})
    /\ UNCHANGED <<wanted, injector, target, stage, todo, kept, trainVars, queued>>

\* fake_solve_disable
ClearByHand(h) ==
    /\ Cleared({h})
    /\ UNCHANGED <<wanted, injector, target, stage, todo, kept, trainVars, queued, seeding>>

UserSets(f, v) ==
    /\ v # train[f] /\ v # "simulator"
    /\ train' = [train EXCEPT ![f] = v]
    /\ swapped' = swapped \ {f} /\ lost' = lost \ {f} /\ unsaved' = unsaved \ {f}
    /\ UNCHANGED <<wanted, injector, target, stage, todo, kept, memory, disk, solveVars>>

\* main() kills stray injectors and clears this device, and the last remote
\* if it is known; PiFinder may not be up yet, which only the log shows.
ClearedAtStart == {{Here}, Hosts}

\* The process ends at any point and starts anew with what was saved.
SimulationRestart ==
    /\ wanted' = FALSE /\ injector' = NoHost /\ target' = Here
    /\ stage' = "free" /\ todo' = {} /\ kept' = {}
    /\ memory' = disk
    /\ lost' = lost \cup unsaved /\ unsaved' = {}
    /\ seeding' = NoHost
    /\ \E H \in ClearedAtStart : Cleared(H)
    /\ UNCHANGED <<train, disk, swapped, queued>>
=============================================================================
