SPECIFICATION Spec
CONSTANTS
    Pos <- Sky
    None = None
    Origin = 0
    Sep <- SkySep
    Carry <- SkyCarry
    MaxSync = 1
    MaxAge = 1
    SettleTicks = 1
    FreshWait = 1
    Retries = 1
    ConfirmTicks = 1
    OwnWindow = 2
    PassiveTicks = 2
    Forever = 2
    Below <- BelowIfLocated
    Unreachable = {3}
    Copies = {0, 1, 2}
    Modes = {"OFF", "VERIFY", "AUTO", "GOTO"}
    Actions = {"SYNC", "GOTO"}
    Starts <- Aligned
    Events = {"push", "slip", "mode", "action", "yes", "no", "reconnect", "restart", "hold"}
    Places = {2, 3}
    Budget = 3
    WireCap = 2
    WorldPhases = {"idle"}
INVARIANTS
    OneCorrector
    GotoTargetSet
