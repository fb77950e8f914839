------------------------------ MODULE Admission ------------------------------
(***************************************************************************)
(* How a request gets to act: the preamble of do_POST.  A password is      *)
(* first held against the count of wrong answers of its address, then      *)
(* waits for one of a few PAM slots, and only a wrong answer is counted;   *)
(* then the request must come from the browser that holds the lease.       *)
(* An admitted request runs on its own thread: the lease is not looked at  *)
(* again.                                                                  *)
(***************************************************************************)
EXTENDS HostLease
CONSTANTS Handlers,   \* request threads of the HTTP server
          Threshold,  \* _AUTH_LOCKOUT_THRESHOLD
          Slots       \* _auth_semaphore

ASSUME AdmissionAssumption ==
    Threshold \in Nat \ {0} /\ Slots \in Nat \ {0} /\ IsFiniteSet(Handlers)

VARIABLES request,   \* what each thread does: who asks, with which password
          failures   \* _auth_failures of each browser's address

admissionVars == <<request, failures>>

Idle == [phase |-> "idle"]

Requests == [phase : {"queued", "verifying", "admitted"}, by : Clients, right : BOOLEAN]

In(phase) == {h \in Handlers : request[h].phase = phase}

AdmissionTypeOK ==
    /\ request \in [Handlers -> Requests \cup {Idle}]
    /\ failures \in [Clients -> 0 .. Threshold - 1 + Cardinality(Handlers)]
    /\ Cardinality(In("verifying")) <= Slots

AdmissionInit ==
    /\ request = [h \in Handlers |-> Idle]
    /\ failures = [c \in Clients |-> 0]

CountAfter(c, right) == IF right THEN 0 ELSE failures[c] + 1

\* A password arrives; an address over the threshold is turned away.
Arrive(h, c, right) ==
    /\ request[h] = Idle /\ failures[c] < Threshold
    /\ request' = [request EXCEPT ![h] = [phase |-> "queued", by |-> c, right |-> right]]
    /\ UNCHANGED failures

AnySlot == TRUE
SlotFree == Cardinality(In("verifying")) < Slots

Verify(h) ==
    /\ request[h].phase = "queued" /\ SlotFree
    /\ request' = [request EXCEPT ![h].phase = "verifying"]
    /\ UNCHANGED failures

\* PAM answers: count or clear, then _require_host.
Answer(h) ==
    /\ request[h].phase = "verifying"
    /\ LET c == request[h].by
           right == request[h].right
       IN  /\ failures' = [failures EXCEPT ![c] = CountAfter(c, right)]
           /\ request' = IF right /\ IsHost(c)
                         THEN [request EXCEPT ![h].phase = "admitted"]
                         ELSE [request EXCEPT ![h] = Idle]

\* _AUTH_LOCKOUT_WINDOW seconds after the first wrong answer it starts anew.
WindowEnds(c) ==
    /\ failures[c] > 0
    /\ failures' = [failures EXCEPT ![c] = 0]
    /\ UNCHANGED request

\* The handler of an admitted request has run.
Served(h) ==
    /\ request[h].phase = "admitted"
    /\ request' = [request EXCEPT ![h] = Idle]
    /\ UNCHANGED failures

=============================================================================
