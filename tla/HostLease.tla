------------------------------ MODULE HostLease ------------------------------
(***************************************************************************)
(* The host lease of the Control Center: one browser at a time may change  *)
(* anything.  server.py keeps the holder and the time of its last          *)
(* heartbeat under one lock; a lease nobody renews expires.  The browser   *)
(* side (status_page.html) is external: a page that believes it is the     *)
(* host beats once a period, a page that is not asks for a free lease, a   *)
(* page that goes away sends a release which may be late or lost.          *)
(***************************************************************************)
EXTENDS Naturals, FiniteSets
CONSTANTS Clients,   \* browsers, told apart by their stored client id
          None,      \* nobody
          Patience,  \* HOST_LEASE_TIMEOUT_SEC in heartbeat periods
          Overrides  \* bound: presses of "Take control"

ASSUME LeaseAssumption == None \notin Clients /\ Patience \in Nat \ {0} /\ Overrides \in Nat

VARIABLES host,    \* _host_client_id
          silent,  \* periods since _host_last_heartbeat, counted up to Patience
          tab,     \* what each browser's page is and believes itself to be
          beacon,  \* releases sent by closed pages and not yet received
          taken    \* presses of "Take control"

leaseVars == <<host, silent, tab, beacon, taken>>

Active == host # None /\ silent < Patience

IsHost(c) == Active /\ host = c

LeaseTypeOK ==
    /\ host \in Clients \cup {None}
    /\ silent \in 0 .. Patience
    /\ tab \in [Clients -> {"closed", "reader", "host", "asleep"}]
    /\ beacon \subseteq Clients
    /\ taken \in 0 .. Overrides

LeaseInit ==
    /\ host = None /\ silent = Patience
    /\ tab = [c \in Clients |-> "reader"]
    /\ beacon = {} /\ taken = 0

\* What the server renews for client c when the lease is given to it.
Hold(c) == host' = c /\ silent' = 0

ClaimAnyway(c) == TRUE
MayClaim(c) == ~Active \/ host = c

\* _host_claim: a page that is not the host finds the lease free.
Claim(c) ==
    /\ tab[c] = "reader" /\ MayClaim(c)
    /\ Hold(c)
    /\ tab' = [tab EXCEPT ![c] = "host"]
    /\ UNCHANGED <<beacon, taken>>

RenewsAny(c) == host # None
Renews(c) == host = c

\* _host_heartbeat: whoever the server still names is renewed, also when the
\* lease has run out meanwhile; anybody else learns that it lost control.
Heartbeat(c) ==
    /\ tab[c] = "host"
    /\ IF Renews(c)
       THEN silent' = 0 /\ UNCHANGED tab
       ELSE tab' = [tab EXCEPT ![c] = "reader"] /\ UNCHANGED silent
    /\ UNCHANGED <<host, beacon, taken>>

\* _host_take_control: unconditional.
TakeControl(c) ==
    /\ tab[c] = "reader" /\ taken < Overrides
    /\ Hold(c)
    /\ tab' = [tab EXCEPT ![c] = "host"]
    /\ taken' = taken + 1
    /\ UNCHANGED beacon

\* _host_release, for a beacon that arrives whenever the network delivers it.
Release(c) ==
    /\ c \in beacon
    /\ beacon' = beacon \ {c}
    /\ IF host = c THEN host' = None /\ silent' = Patience ELSE UNCHANGED <<host, silent>>
    /\ UNCHANGED <<tab, taken>>

Close(c) ==
    /\ tab[c] \in {"reader", "host"}
    /\ tab' = [tab EXCEPT ![c] = "closed"]
    /\ beacon' = IF tab[c] = "host" THEN beacon \cup {c} ELSE beacon
    /\ UNCHANGED <<host, silent, taken>>

BeaconLost(c) == c \in beacon /\ beacon' = beacon \ {c} /\ UNCHANGED <<host, silent, tab, taken>>

Open(c) == /\ tab[c] = "closed"
           /\ tab' = [tab EXCEPT ![c] = "reader"]
           /\ UNCHANGED <<host, silent, beacon, taken>>

Sleep(c) == /\ tab[c] = "host"
            /\ tab' = [tab EXCEPT ![c] = "asleep"]
            /\ UNCHANGED <<host, silent, beacon, taken>>

Wake(c) == /\ tab[c] = "asleep"
           /\ tab' = [tab EXCEPT ![c] = "host"]
           /\ UNCHANGED <<host, silent, beacon, taken>>

\* One heartbeat period passes; the age of a lease is a comparison of clocks.
Period ==
    /\ host # None /\ silent < Patience
    /\ silent' = silent + 1
    /\ UNCHANGED <<host, tab, beacon, taken>>

LeaseNext ==
    \/ Period
    \/ \E c \in Clients :
         \/ Claim(c) \/ Heartbeat(c) \/ TakeControl(c) \/ Release(c)
         \/ Close(c) \/ BeaconLost(c) \/ Open(c) \/ Sleep(c) \/ Wake(c)

Promise == INSTANCE OneWriterLease
           WITH writer <- IF Active THEN host ELSE None,
                quiet <- IF Active THEN silent ELSE Patience,
                overrides <- taken
=============================================================================
