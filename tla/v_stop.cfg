SPECIFICATION StopSpec
CONSTANTS
    Pos <- Sky
    None = None
    Origin = 0
    Sep <- SkySep
    Carry <- SkyCarry
    MaxSync = 1
    MaxAge = 1
    SettleTicks = 1
    FreshWait = 1
    Retries = 1
    ConfirmTicks = 1
    OwnWindow = 2
    PassiveTicks = 2
    Forever = 1
    Below = {}
    Unreachable = {}
    Copies = {1}
    Modes = {"GOTO"}
    Actions = {"GOTO"}
    Starts <- Aligned
    Events = {"push", "abort"}
    Places = {1, 2, 3}
    Budget = 2
    WireCap = 2
    WorldPhases = {"idle"}
PROPERTIES
    StaysStopped
