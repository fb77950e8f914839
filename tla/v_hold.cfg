SPECIFICATION FairSpec
CONSTANTS
    None = None
    Mount = eq
    Names = {local, pfsm}
    ClientProfile = pfsm
    Requests = {1, 2}
    Attempts = 3
    Fails = 2
    Restarts = 2
    Focus = {"guiding"}
    Budget = 3
PROPERTY
    RestartedAfterGuiding
CHECK_DEADLOCK FALSE
