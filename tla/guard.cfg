SPECIFICATION FairSpec
CONSTANTS
    None = None
    Mount = eq
    Names = {local, pfsm}
    ClientProfile = pfsm
    Requests = {1, 2}
    Attempts = 3
    Fails = 2
    Restarts = 2
    Focus = {"driver", "guiding", "link", "profiles", "service"}
    Budget = 3
INVARIANTS
    TypeOK
PROPERTIES
    DriverReady
    HoldFollowsGuiding
    LinkRenewed
    ProfileReturns
    ServiceFollowsTarget
CHECK_DEADLOCK FALSE
