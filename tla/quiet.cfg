SPECIFICATION Spec
CONSTANTS
    Pos <- Sky
    None = None
    Origin = 0
    Sep <- SkySep
    Carry <- SkyCarry
    MaxSync = 1
    MaxAge = 1
    SettleTicks = 1
    FreshWait = 1
    Retries = 1
    ConfirmTicks = 2
    OwnWindow = 2
    PassiveTicks = 2
    Forever = 2
    Below = {}
    Unreachable = {}
    Copies = {1}
    Modes = {"AUTO", "GOTO"}
    Actions = {"SYNC", "GOTO"}
    Starts <- Aligned
    Events = {"push", "move", "slip", "yes", "hold", "abort"}
    Places = {1, 2, 3}
    Budget = 3
    WireCap = 2
    WorldPhases = {"idle"}
PROPERTIES
    PendingQuiet
    HoldQuiet
    SyncAtRest
    AdoptsRestingPlace
