SPECIFICATION FairSpec
CONSTANTS
    Clients = {a, b}
    None = None
    Patience = 3
    Overrides = 1
    Handlers = {1, 2}
    Threshold = 2
    Slots = 1
    Fields = {mount, guider}
    Hosts = {here, there}
    Here = here
    NoHost = NoHost
    Focus = {"lease", "requests", "jobs", "simulation"}
    Budget = 4
    Arrivals = 3
INVARIANTS
    TypeOK
    JobsAlone
    TrainsRemembered
    
PROPERTIES
    OneWriterPromised
    NoLockout
    
    JobsEnd
    InjectorRevived
CHECK_DEADLOCK FALSE
