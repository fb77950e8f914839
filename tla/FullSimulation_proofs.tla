------------------------ MODULE FullSimulation_proofs ------------------------
(***************************************************************************)
(* Full Simulation, for every set of train fields and of PiFinders, and    *)
(* however toggles, watchdog, injector, seeds by hand and crashes          *)
(* interleave, and whichever saves and clears fail: the trains it moved    *)
(* stay on record, and off is off.  Both are promises about the moments    *)
(* when nobody holds the lock; Recorded and Calm say what carries them     *)
(* through a start, a restore and a clear.                                 *)
(***************************************************************************)
EXTENDS ControlProperties, TLAPS

\* A field that was moved names the simulator.  The memory has it unless it
\* was lost, the disk unless no save came through since; during a restore it
\* is yet to be visited or was kept for later.
Recorded ==
    /\ \A f \in swapped : train[f] = "simulator"
    /\ swapped \ lost \subseteq memory
    /\ swapped \ (lost \cup unsaved) \subseteq disk
    /\ stage = "restore" => swapped \ lost \subseteq todo \cup kept

\* Only what is wanted injects or starts to; off for good, only what no clear
\* has dealt with since can have set PiFinder injecting.
Calm ==
    /\ stage = "swap" => wanted
    /\ stage \in {"restore", "clear"} => ~wanted
    /\ ~wanted => ~Injecting
    /\ stage = "free" /\ ~wanted => (active \cup queued) \cap {Here} \subseteq loose

SimulationInv == SimulationTypeOK /\ Recorded /\ Calm

SimulationStep == SimulationActs \/ SimulationSteps

USE DEF simulationVars, trainVars, solveVars

(* All the process does to Full Simulation are steps of Full Simulation.   *)
LEMMA SimulationOnly ==
    ASSUME [Next]_vars
    PROVE  SimulationStep \/ UNCHANGED simulationVars
<1>1. CASE UNCHANGED vars
  BY <1>1 DEF vars
<1>2. CASE AboutLease \/ Ownership
  BY <1>2 DEF AboutLease, Ownership
<1>3. CASE Arriving \/ Admitting \/ Handling
  BY <1>3 DEF Arriving, Admitting, Handling
<1>4. CASE Working \/ Asking
  BY <1>4 DEF Working, Asking
<1>5. CASE Simulating
  BY <1>5 DEF Simulating, SimulationStep
<1>. QED
  BY <1>1, <1>2, <1>3, <1>4, <1>5 DEF Next

LEMMA SimulationInitInv == SimulationInit => SimulationInv
BY SimulationAssumption
DEF SimulationInit, SimulationInv, SimulationTypeOK, Recorded, Calm, Injecting

----------------------------------------------------------------------------
\* The lock is taken and given back: a start, a toggle off, and their ends.

(* A start, by a toggle or by the watchdog, is wanted and records nothing. *)
LEMMA BeginInv ==
    ASSUME SimulationInv, NEW h \in Hosts, Begin(h), wanted' = TRUE,
           UNCHANGED <<trainVars, solveVars>>
    PROVE  SimulationInv'
BY DEF Begin, SimulationInv, SimulationTypeOK, Recorded, Calm, Injecting

LEMMA TurnOffInv ==
    ASSUME SimulationInv, TurnOff
    PROVE  SimulationInv'
BY SimulationAssumption DEF TurnOff, SimulationInv, SimulationTypeOK, Recorded, Calm, Injecting

LEMMA ToggleInv ==
    ASSUME SimulationInv, NEW h \in Hosts, NEW direction, Toggle(h, direction)
    PROVE  SimulationInv'
BY BeginInv, TurnOffInv DEF Toggle, TurnOn

LEMMA ReviveInv ==
    ASSUME SimulationInv, Revive
    PROVE  SimulationInv'
<1>1. target \in Hosts
  BY DEF SimulationInv, SimulationTypeOK
<1>. QED
  BY <1>1, BeginInv DEF Revive, SimulationInv, SimulationTypeOK

LEMMA LaunchInv ==
    ASSUME SimulationInv, Launch
    PROVE  SimulationInv'
BY DEF Launch, Saved, SimulationInv, SimulationTypeOK, Recorded, Calm, Injecting

(* Any save of the desired state writes the record, or fails.              *)
LEMMA SavedAlongInv ==
    ASSUME SimulationInv, SavedAlong
    PROVE  SimulationInv'
BY DEF SavedAlong, Saved, SimulationInv, SimulationTypeOK, Recorded, Calm, Injecting

LEMMA RestoredInv ==
    ASSUME SimulationInv, Restored \/ RestoreBroken
    PROVE  SimulationInv'
<1>. USE DEF SimulationInv, SimulationTypeOK, Recorded, Calm, Injecting
<1>1. CASE Restored
  BY <1>1 DEF Restored, Saved, Remaining
<1>2. CASE RestoreBroken
  BY <1>2 DEF RestoreBroken
<1>. QED
  BY <1>1, <1>2

LEMMA ClearLocalInv ==
    ASSUME SimulationInv, ClearLocal
    PROVE  SimulationInv'
BY SimulationAssumption
DEF ClearLocal, ClearedByOff, Cleared, SimulationInv, SimulationTypeOK, Recorded, Calm, Injecting

----------------------------------------------------------------------------
\* One train field: swapped, given back, or set by the user.

LEMMA SwapFieldInv ==
    ASSUME SimulationInv, NEW f \in Fields, SwapField(f)
    PROVE  SimulationInv'
<1>. USE DEF SimulationInv
<1>1. SimulationTypeOK'
  BY DEF SwapField, Renamed, SimulationTypeOK
<1>2. Recorded'
  <2>1. CASE UNCHANGED trainVars
    BY <2>1 DEF SwapField, Recorded
  <2>2. CASE Renamed(f, "mount", "simulator") /\ swapped' = swapped \cup {f}
    BY <2>2 DEF SwapField, Renamed, SimulationTypeOK, Recorded
  <2>. QED
    BY <2>1, <2>2 DEF SwapField
<1>3. Calm'
  BY DEF SwapField, Calm, Injecting
<1>. QED
  BY <1>1, <1>2, <1>3

LEMMA RestoreFieldInv ==
    ASSUME SimulationInv, NEW f \in Fields, RestoreField(f)
    PROVE  SimulationInv'
<1>. USE DEF SimulationInv
<1>1. SimulationTypeOK'
  BY DEF RestoreField, Renamed, SimulationTypeOK
<1>2. Recorded'
  <2>1. CASE Renamed(f, "simulator", "mount") /\ swapped' = swapped \ {f} /\ kept' \in {kept, kept \cup {f}}
    BY <2>1 DEF RestoreField, Renamed, SimulationTypeOK, Recorded
  <2>2. CASE train[f] # "simulator" /\ UNCHANGED <<train, swapped, kept>>
    BY <2>2 DEF RestoreField, SimulationTypeOK, Recorded
  <2>3. CASE kept' = kept \cup {f} /\ UNCHANGED <<train, swapped>>
    BY <2>3 DEF RestoreField, SimulationTypeOK, Recorded
  <2>. QED
    BY <2>1, <2>2, <2>3 DEF RestoreField
<1>3. Calm'
  BY DEF RestoreField, Calm, Injecting
<1>. QED
  BY <1>1, <1>2, <1>3

LEMMA UserSetsInv ==
    ASSUME SimulationInv, NEW f \in Fields, NEW v \in {"mount", "other"}, UserSets(f, v)
    PROVE  SimulationInv'
BY DEF UserSets, SimulationInv, SimulationTypeOK, Recorded, Calm, Injecting

----------------------------------------------------------------------------
\* Seeds: queued, applied when PiFinder pleases, and cleared.

(* What feeds, seeds or clears a PiFinder leaves the lock, the trains and  *)
(* the injector alone, or lets it die.                                     *)
LEMMA SeedsInv ==
    ASSUME SimulationInv,
           \/ Inject \/ InjectorDies
           \/ \E h \in Hosts : Drain(h) \/ SeedByHand(h) \/ SeedOnce(h)
    PROVE  SimulationInv'
<1>. USE DEF SimulationInv, SimulationTypeOK, Recorded, Calm, Injecting
<1>1. CASE Inject
  BY <1>1 DEF Inject
<1>2. CASE InjectorDies
  BY <1>2 DEF InjectorDies
<1>3. ASSUME NEW h \in Hosts, Drain(h)
      PROVE  SimulationInv'
  BY <1>3 DEF Drain
<1>4. ASSUME NEW h \in Hosts, SeedByHand(h) \/ SeedOnce(h)
      PROVE  SimulationInv'
  BY <1>4 DEF SeedByHand, SeedOnce
<1>. QED
  BY <1>1, <1>2, <1>3, <1>4

(* A host that is cleared is injected by nothing, or has a seed queued; if *)
(* the clear failed, it counts as loose.                                   *)
LEMMA ClearsInv ==
    ASSUME SimulationInv, ReleaseSeed \/ \E h \in Hosts : ClearByHand(h)
    PROVE  SimulationInv'
<1>. USE DEF Cleared, SimulationInv, SimulationTypeOK, Recorded, Calm, Injecting
<1>1. CASE ReleaseSeed
  BY <1>1 DEF ReleaseSeed
<1>2. ASSUME NEW h \in Hosts, ClearByHand(h)
      PROVE  SimulationInv'
  BY <1>2 DEF ClearByHand
<1>. QED
  BY <1>1, <1>2

(* The process ends and starts anew: only the disk counts, and this        *)
(* device is cleared, or was not up to be.                                 *)
LEMMA RestartInv ==
    ASSUME SimulationInv, SimulationRestart
    PROVE  SimulationInv'
<1>. USE SimulationAssumption DEF SimulationInv
<1>1. PICK H \in ClearedAtStart : Cleared(H)
  BY DEF SimulationRestart
<1>2. Here \in H /\ H \subseteq Hosts
  BY <1>1 DEF ClearedAtStart
<1>3. SimulationTypeOK'
  BY <1>1, <1>2 DEF SimulationRestart, Cleared, SimulationTypeOK
<1>4. Recorded'
  BY DEF SimulationRestart, SimulationTypeOK, Recorded
<1>5. Calm'
  BY <1>1, <1>2 DEF SimulationRestart, Cleared, SimulationTypeOK, Calm, Injecting
<1>. QED
  BY <1>3, <1>4, <1>5

----------------------------------------------------------------------------
(* The strengthened invariant holds in every state.                        *)
THEOREM SimulationInvariant == Spec => []SimulationInv
<1>1. Init => SimulationInv
  BY SimulationInitInv DEF Init
<1>2. SimulationInv /\ [Next]_vars => SimulationInv'
  <2>. SUFFICES ASSUME SimulationInv, [Next]_vars
                PROVE  SimulationInv'
    OBVIOUS
  <2>1. CASE SimulationActs
    BY <2>1, ToggleInv, SeedsInv, ClearsInv, RestartInv, UserSetsInv,
       SavedAlongInv DEF SimulationActs
  <2>2. CASE SimulationSteps
    BY <2>2, ReviveInv, LaunchInv, RestoredInv, ClearLocalInv, SeedsInv, ClearsInv,
       SwapFieldInv, RestoreFieldInv DEF SimulationSteps
  <2>3. CASE UNCHANGED simulationVars
    BY <2>3 DEF SimulationInv, SimulationTypeOK, Recorded, Calm, Injecting
  <2>. QED
    BY <2>1, <2>2, <2>3, SimulationOnly DEF SimulationStep
<1>. QED
  BY <1>1, <1>2, PTL DEF Spec

(* Every train field Full Simulation moved to the simulator is on record   *)
(* for being given back: in memory while the process lives, on disk once a *)
(* save came through; whichever saves fail, and wherever a crash or a late *)
(* answer of KStars falls (_optical_train_snapshot_and_enter_sim).         *)
THEOREM TrainsRememberedAlways == Spec => []TrainsRemembered
<1>1. SimulationInv => TrainsRemembered
  BY DEF SimulationInv, Recorded, TrainsRemembered
<1>. QED
  BY <1>1, SimulationInvariant, PTL

(* With Full Simulation off, this device's PiFinder is injected only by    *)
(* hand, by a seed that was queued when it was cleared, or because the     *)
(* last clear did not come through (_truth_injector_stop, main).           *)
THEOREM OffIsOffAlways == Spec => []OffIsOff
<1>1. SimulationInv => OffIsOff
  BY DEF SimulationInv, Calm, OffIsOff
<1>. QED
  BY <1>1, SimulationInvariant, PTL
=============================================================================
