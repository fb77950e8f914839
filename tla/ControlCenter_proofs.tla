------------------------ MODULE ControlCenter_proofs ------------------------
(***************************************************************************)
(* The Control Center's lease and its admission of requests, for every     *)
(* number of browsers and of request threads, every patience and           *)
(* threshold, and whatever else the process does: the lease implements the *)
(* one-writer lease of OneWriterLease, no more passwords are verified at   *)
(* once than there are slots, and an address is held to a bounded number   *)
(* of wrong answers.  With the jobs and Full Simulation the process is     *)
(* well typed.                                                             *)
(***************************************************************************)
EXTENDS Jobs_proofs, FullSimulation_proofs

USE DEF leaseVars, admissionVars

(* The lease starts well typed, and every step of it keeps it so.          *)
LEMMA LeaseTypeInit == LeaseInit => LeaseTypeOK
BY LeaseAssumption DEF LeaseInit, LeaseTypeOK

LEMMA LeaseTypeStep ==
    ASSUME LeaseTypeOK, LeaseNext
    PROVE  LeaseTypeOK'
<1>. USE LeaseAssumption DEF LeaseTypeOK
<1>1. CASE Period
  BY <1>1 DEF Period
<1>2. ASSUME NEW c \in Clients, Claim(c)
      PROVE  LeaseTypeOK'
  BY <1>2 DEF Claim, Hold
<1>3. ASSUME NEW c \in Clients, Heartbeat(c)
      PROVE  LeaseTypeOK'
  BY <1>3 DEF Heartbeat, Renews
<1>4. ASSUME NEW c \in Clients, TakeControl(c)
      PROVE  LeaseTypeOK'
  BY <1>4 DEF TakeControl, Hold
<1>5. ASSUME NEW c \in Clients, Release(c)
      PROVE  LeaseTypeOK'
  BY <1>5 DEF Release
<1>6. ASSUME NEW c \in Clients, Close(c) \/ BeaconLost(c)
      PROVE  LeaseTypeOK'
  BY <1>6 DEF Close, BeaconLost
<1>7. ASSUME NEW c \in Clients, Open(c) \/ Sleep(c) \/ Wake(c)
      PROVE  LeaseTypeOK'
  BY <1>7 DEF Open, Sleep, Wake
<1>. QED
  BY <1>1, <1>2, <1>3, <1>4, <1>5, <1>6, <1>7 DEF LeaseNext

(* All the process does to the lease are steps of the lease.               *)
LEMMA LeaseOnly ==
    ASSUME [Next]_vars
    PROVE  LeaseNext \/ UNCHANGED leaseVars
<1>1. CASE UNCHANGED vars
  BY <1>1 DEF vars
<1>2. CASE AboutLease
  BY <1>2 DEF AboutLease
<1>3. CASE Ownership
  BY <1>3 DEF Ownership, LeaseNext
<1>4. CASE Arriving \/ Admitting \/ Handling
  BY <1>4 DEF Arriving, Admitting, Handling
<1>5. CASE Working \/ Asking \/ Simulating
  BY <1>5 DEF Working, Asking, Simulating
<1>. QED
  BY <1>1, <1>2, <1>3, <1>4, <1>5 DEF Next

(* The lease is well typed in every state of the Control Center.           *)
THEOREM LeaseTyped == Spec => []LeaseTypeOK
<1>1. Init => LeaseTypeOK
  BY LeaseTypeInit DEF Init
<1>2. LeaseTypeOK /\ [Next]_vars => LeaseTypeOK'
  <2>. SUFFICES ASSUME LeaseTypeOK, [Next]_vars
                PROVE  LeaseTypeOK'
    OBVIOUS
  <2>1. CASE LeaseNext
    BY <2>1, LeaseTypeStep
  <2>2. CASE UNCHANGED leaseVars
    BY <2>2 DEF LeaseTypeOK
  <2>. QED
    BY <2>1, <2>2, LeaseOnly
<1>. QED
  BY <1>1, <1>2, PTL DEF Spec

----------------------------------------------------------------------------
(* A free or own lease is granted or heard; an expired one is as good as   *)
(* free, also to its own late heartbeat.                                   *)
LEMMA GrantedOrHeard ==
    ASSUME LeaseTypeOK, NEW c \in Clients, Hold(c), UNCHANGED taken, ~Active \/ host = c
    PROVE  Promise!Step
<1>. USE LeaseAssumption DEF LeaseTypeOK, Hold, Active
<1>1. CASE Active
  <2>1. Promise!Hear
    BY <1>1 DEF Promise!Hear
  <2>. QED
    BY <2>1 DEF Promise!Step
<1>2. CASE ~Active
  <2>1. Promise!Grant(c)
    BY <1>2 DEF Promise!Grant
  <2>. QED
    BY <2>1 DEF Promise!Step
<1>. QED
  BY <1>1, <1>2

(* Every step of the lease is one of the promise, or invisible to it.      *)
LEMMA LeaseStepKeepsPromise ==
    ASSUME LeaseTypeOK, LeaseNext
    PROVE  Promise!Step \/ UNCHANGED Promise!abstractVars
<1>. USE LeaseAssumption DEF LeaseTypeOK
<1>1. CASE Period
  <2>1. Promise!Wait
    BY <1>1 DEF Period, Active, Promise!Wait
  <2>. QED
    BY <2>1 DEF Promise!Step
<1>2. ASSUME NEW c \in Clients, Claim(c)
      PROVE  Promise!Step
  BY <1>2, GrantedOrHeard DEF Claim, MayClaim
<1>3. ASSUME NEW c \in Clients, Heartbeat(c)
      PROVE  Promise!Step \/ UNCHANGED Promise!abstractVars
  <2>1. CASE Renews(c)
    BY <1>3, <2>1, GrantedOrHeard DEF Heartbeat, Renews, Hold
  <2>2. CASE ~Renews(c)
    BY <1>3, <2>2 DEF Heartbeat, Active, Promise!abstractVars
  <2>. QED
    BY <2>1, <2>2
<1>4. ASSUME NEW c \in Clients, TakeControl(c)
      PROVE  Promise!Step
  <2>1. Promise!TakeOver(c)
    BY <1>4 DEF TakeControl, Hold, Active, Promise!TakeOver
  <2>. QED
    BY <2>1 DEF Promise!Step
<1>5. ASSUME NEW c \in Clients, Release(c)
      PROVE  Promise!Step \/ UNCHANGED Promise!abstractVars
  <2>1. CASE host = c /\ Active
    <3>1. Promise!Resign
      BY <1>5, <2>1 DEF Release, Active, Promise!Resign
    <3>. QED
      BY <3>1 DEF Promise!Step
  <2>2. CASE ~(host = c /\ Active)
    BY <1>5, <2>2 DEF Release, Active, Promise!abstractVars
  <2>. QED
    BY <2>1, <2>2
<1>6. ASSUME NEW c \in Clients,
             Close(c) \/ BeaconLost(c) \/ Open(c) \/ Sleep(c) \/ Wake(c)
      PROVE  UNCHANGED Promise!abstractVars
  BY <1>6 DEF Close, BeaconLost, Open, Sleep, Wake, Active, Promise!abstractVars
<1>. QED
  BY <1>1, <1>2, <1>3, <1>4, <1>5, <1>6 DEF LeaseNext

(* The Control Center keeps what OneWriterLease promises: control changes  *)
(* hands only through nobody or by the override, and lasts only while it   *)
(* is renewed (_host_claim to _host_take_control).                         *)
THEOREM LeaseKeepsPromise == Spec => OneWriterPromised
<1>1. Init => Promise!Start
  BY LeaseAssumption DEF Init, LeaseInit, Active, Promise!Start
<1>2. LeaseTypeOK /\ [Next]_vars => [Promise!Step]_(Promise!abstractVars)
  <2>. SUFFICES ASSUME LeaseTypeOK, [Next]_vars
                PROVE  Promise!Step \/ UNCHANGED Promise!abstractVars
    OBVIOUS
  <2>1. CASE LeaseNext
    BY <2>1, LeaseStepKeepsPromise
  <2>2. CASE UNCHANGED leaseVars
    BY <2>2 DEF Active, Promise!abstractVars
  <2>. QED
    BY <2>1, <2>2, LeaseOnly
<1>. QED
  BY <1>1, <1>2, LeaseTyped, PTL DEF Spec, OneWriterPromised, Promise!OneWriter

----------------------------------------------------------------------------
\* Requests of client c whose password is still to be held against its count.
Pending(c) == {h \in Handlers : request[h].phase \in {"queued", "verifying"} /\ request[h].by = c}

\* A wrong answer that is still to come has its place below the limit: the
\* count was under the threshold when its request arrived.
CountsBounded ==
    \A c \in Clients :
        failures[c] + Cardinality(Pending(c)) <= Threshold - 1 + Cardinality(Handlers)

AdmissionInv == AdmissionTypeOK /\ CountsBounded

AdmissionStep ==
    \/ \E h \in Handlers, c \in Clients, right \in BOOLEAN : Arrive(h, c, right)
    \/ \E h \in Handlers : Verify(h) \/ Answer(h) \/ Served(h)
    \/ \E c \in Clients : WindowEnds(c)

(* All the process does to its requests are steps of the admission.        *)
LEMMA AdmissionOnly ==
    ASSUME [Next]_vars
    PROVE  AdmissionStep \/ UNCHANGED admissionVars
<1>1. CASE UNCHANGED vars
  BY <1>1 DEF vars
<1>2. CASE AboutLease \/ Ownership
  BY <1>2 DEF AboutLease, Ownership
<1>3. CASE Arriving
  BY <1>3 DEF Arriving, AdmissionStep
<1>4. CASE Admitting
  BY <1>4 DEF Admitting, AdmissionStep
<1>5. CASE Handling
  BY <1>5 DEF Handling, AdmissionStep
<1>6. CASE Working \/ Asking \/ Simulating
  BY <1>6 DEF Working, Asking, Simulating
<1>. QED
  BY <1>1, <1>2, <1>3, <1>4, <1>5, <1>6 DEF Next

(* The threads are finitely many, and so are those of any sort.            *)
LEMMA HandlersFinite ==
    /\ IsFiniteSet(Handlers) /\ Cardinality(Handlers) \in Nat
    /\ \A S \in SUBSET Handlers :
           IsFiniteSet(S) /\ Cardinality(S) \in Nat /\ Cardinality(S) <= Cardinality(Handlers)
BY AdmissionAssumption, FS_Subset, FS_CardinalityType

(* A count that leaves room for what is pending is within its type.        *)
LEMMA CountTyped ==
    ASSUME NEW count \in [Clients -> Nat],
           \A c \in Clients : \E n \in Nat : count[c] + n <= Threshold - 1 + Cardinality(Handlers)
    PROVE  count \in [Clients -> 0 .. Threshold - 1 + Cardinality(Handlers)]
BY AdmissionAssumption, HandlersFinite

LEMMA AdmissionInitInv == AdmissionInit => AdmissionInv
<1>. SUFFICES ASSUME AdmissionInit
              PROVE  AdmissionInv
  OBVIOUS
<1>1. In("verifying") = {} /\ \A c \in Clients : Pending(c) = {}
  BY DEF AdmissionInit, In, Pending, Idle
<1>2. CountsBounded
  BY <1>1, FS_EmptySet, AdmissionAssumption, HandlersFinite DEF AdmissionInit, CountsBounded
<1>3. Cardinality(In("verifying")) <= Slots
  BY <1>1, FS_EmptySet, AdmissionAssumption
<1>4. failures \in [Clients -> 0 .. Threshold - 1 + Cardinality(Handlers)]
  BY AdmissionAssumption, HandlersFinite DEF AdmissionInit
<1>. QED
  BY <1>2, <1>3, <1>4 DEF AdmissionInit, AdmissionInv, AdmissionTypeOK

(* A request arrives: its address is under the threshold, so all threads   *)
(* together leave it within the limit.                                     *)
LEMMA ArriveInv ==
    ASSUME AdmissionInv, NEW h \in Handlers, NEW c \in Clients, NEW right \in BOOLEAN,
           Arrive(h, c, right)
    PROVE  AdmissionInv'
<1>. USE AdmissionAssumption DEF Arrive, AdmissionInv, AdmissionTypeOK
<1>1. request' \in [Handlers -> Requests \cup {Idle}]
  BY DEF Requests
<1>2. In("verifying")' = In("verifying")
  BY DEF In, Idle
<1>3. ASSUME NEW d \in Clients
      PROVE  failures[d] + Cardinality(Pending(d)') <= Threshold - 1 + Cardinality(Handlers)
  <2>1. CASE d = c
    <3>1. Cardinality(Pending(d)') \in Nat /\ Cardinality(Pending(d)') <= Cardinality(Handlers)
      BY HandlersFinite DEF Pending
    <3>2. failures[d] \in Nat /\ failures[d] <= Threshold - 1
      BY <2>1
    <3>. QED
      BY <3>1, <3>2, HandlersFinite
  <2>2. CASE d # c
    <3>1. Pending(d)' = Pending(d)
      BY <2>2 DEF Pending, Idle
    <3>. QED
      BY <3>1 DEF CountsBounded
  <2>. QED
    BY <2>1, <2>2
<1>. QED
  BY <1>1, <1>2, <1>3 DEF CountsBounded

(* A slot is taken only while one is free.                                 *)
LEMMA VerifyInv ==
    ASSUME AdmissionInv, NEW h \in Handlers, Verify(h)
    PROVE  AdmissionInv'
<1>. USE AdmissionAssumption DEF Verify, AdmissionInv, AdmissionTypeOK
<1>1. request[h] \in Requests
  BY DEF Idle
<1>2. request' \in [Handlers -> Requests \cup {Idle}]
  BY <1>1 DEF Requests
<1>3. In("verifying")' = In("verifying") \cup {h} /\ h \notin In("verifying")
  BY <1>1 DEF In, Requests
<1>4. Cardinality(In("verifying")') = Cardinality(In("verifying")) + 1
  BY <1>3, FS_AddElement, HandlersFinite DEF In
<1>5. Cardinality(In("verifying")') <= Slots
  BY <1>4, HandlersFinite DEF SlotFree, In
<1>6. \A d \in Clients : Pending(d)' = Pending(d)
  BY <1>1 DEF Pending, Requests
<1>. QED
  BY <1>2, <1>5, <1>6 DEF CountsBounded

(* An answer leaves its slot; if it was wrong, one that was pending is     *)
(* counted now.                                                            *)
LEMMA AnswerInv ==
    ASSUME AdmissionInv, NEW h \in Handlers, Answer(h)
    PROVE  AdmissionInv'
<1>. USE AdmissionAssumption DEF AdmissionInv, AdmissionTypeOK
<1>. DEFINE c == request[h].by
            right == request[h].right
<1>1. request[h] \in Requests /\ c \in Clients /\ right \in BOOLEAN
  BY DEF Answer, Idle, Requests
<1>2. /\ request' \in [Handlers -> Requests \cup {Idle}]
      /\ request'[h].phase \in {"admitted", "idle"}
      /\ \A g \in Handlers \ {h} : request'[g] = request[g]
  BY <1>1 DEF Answer, Requests, Idle
<1>3. In("verifying")' = In("verifying") \ {h}
  BY <1>2 DEF In
<1>4. Cardinality(In("verifying")') <= Slots
  BY <1>3, FS_RemoveElement, HandlersFinite DEF In
<1>5. failures' = [failures EXCEPT ![c] = CountAfter(c, right)]
  BY DEF Answer
<1>6. failures' \in [Clients -> Nat]
  BY <1>1, <1>5, HandlersFinite DEF CountAfter
<1>7. ASSUME NEW d \in Clients
      PROVE  failures'[d] + Cardinality(Pending(d)') <= Threshold - 1 + Cardinality(Handlers)
  <2>1. CASE d = c
    <3>1. h \in Pending(d) /\ Pending(d)' = Pending(d) \ {h}
      BY <1>2, <2>1 DEF Pending, Answer
    <3>2. Cardinality(Pending(d)') = Cardinality(Pending(d)) - 1
      BY <3>1, FS_RemoveElement, HandlersFinite DEF Pending
    <3>3. failures'[d] <= failures[d] + 1
      BY <1>1, <1>5, <2>1, HandlersFinite DEF CountAfter
    <3>4. Cardinality(Pending(d)) \in Nat /\ failures[d] \in Nat /\ failures'[d] \in Nat
      BY <1>6, HandlersFinite DEF Pending
    <3>. QED
      BY <3>2, <3>3, <3>4, HandlersFinite DEF CountsBounded
  <2>2. CASE d # c
    <3>1. Pending(d)' = Pending(d)
      BY <1>2, <2>2 DEF Pending
    <3>. QED
      BY <1>1, <1>5, <2>2, <3>1 DEF CountsBounded
  <2>. QED
    BY <2>1, <2>2
<1>8. CountsBounded'
  BY <1>7 DEF CountsBounded
<1>9. \A d \in Clients : Cardinality(Pending(d)') \in Nat
  BY HandlersFinite DEF Pending
<1>10. failures' \in [Clients -> 0 .. Threshold - 1 + Cardinality(Handlers)]
  BY <1>6, <1>7, <1>9, CountTyped
<1>. QED
  BY <1>2, <1>4, <1>8, <1>10

(* A window that ends forgets a count, a handler that has run its request. *)
LEMMA RestsInv ==
    ASSUME AdmissionInv,
           (\E h \in Handlers : Served(h)) \/ (\E c \in Clients : WindowEnds(c))
    PROVE  AdmissionInv'
<1>. USE AdmissionAssumption DEF AdmissionInv, AdmissionTypeOK
<1>1. ASSUME NEW h \in Handlers, Served(h)
      PROVE  AdmissionInv'
  <2>1. In("verifying")' = In("verifying") /\ \A d \in Clients : Pending(d)' = Pending(d)
    BY <1>1 DEF Served, In, Pending, Idle
  <2>. QED
    BY <1>1, <2>1 DEF Served, CountsBounded
<1>2. ASSUME NEW c \in Clients, WindowEnds(c)
      PROVE  AdmissionInv'
  <2>1. In("verifying")' = In("verifying") /\ \A d \in Clients : Pending(d)' = Pending(d)
    BY <1>2 DEF WindowEnds, In, Pending
  <2>2. \A d \in Clients : failures'[d] <= failures[d]
    BY <1>2, HandlersFinite DEF WindowEnds
  <2>3. failures' \in [Clients -> Nat]
    BY <1>2, HandlersFinite DEF WindowEnds
  <2>4. ASSUME NEW d \in Clients
        PROVE  /\ Cardinality(Pending(d)') \in Nat
               /\ failures'[d] + Cardinality(Pending(d)') <= Threshold - 1 + Cardinality(Handlers)
    <3>1. Cardinality(Pending(d)) \in Nat /\ failures[d] \in Nat /\ failures'[d] \in Nat
      BY <2>3, HandlersFinite DEF Pending
    <3>. QED
      BY <2>1, <2>2, <3>1, HandlersFinite DEF CountsBounded
  <2>5. CountsBounded'
    BY <2>4 DEF CountsBounded
  <2>6. failures' \in [Clients -> 0 .. Threshold - 1 + Cardinality(Handlers)]
    BY <2>3, <2>4, CountTyped
  <2>. QED
    BY <1>2, <2>1, <2>5, <2>6 DEF WindowEnds
<1>. QED
  BY <1>1, <1>2

(* No more passwords are verified at once than there are slots, and no     *)
(* address comes to more wrong answers than the threshold and the threads  *)
(* allow, however requests overtake one another (do_POST's preamble).      *)
THEOREM AdmissionInvariant == Spec => []AdmissionInv
<1>1. Init => AdmissionInv
  BY AdmissionInitInv DEF Init
<1>2. AdmissionInv /\ [Next]_vars => AdmissionInv'
  <2>. SUFFICES ASSUME AdmissionInv, [Next]_vars
                PROVE  AdmissionInv'
    OBVIOUS
  <2>1. CASE AdmissionStep
    BY <2>1, ArriveInv, VerifyInv, AnswerInv, RestsInv DEF AdmissionStep
  <2>2. CASE UNCHANGED admissionVars
    BY <2>2 DEF AdmissionInv, AdmissionTypeOK, CountsBounded, In, Pending
  <2>. QED
    BY <2>1, <2>2, AdmissionOnly
<1>. QED
  BY <1>1, <1>2, PTL DEF Spec

(* The Control Center's process is well typed in every state: lease,       *)
(* admission, jobs and Full Simulation.                                    *)
THEOREM ControlTyped == Spec => []TypeOK
<1>1. LeaseTypeOK /\ AdmissionInv /\ JobsInv /\ SimulationInv => TypeOK
  BY DEF AdmissionInv, JobsInv, SimulationInv, TypeOK
<1>. QED
  BY <1>1, LeaseTyped, AdmissionInvariant, JobsInvariant, SimulationInvariant, PTL
=============================================================================
