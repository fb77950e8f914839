SPECIFICATION FairSpec
CONSTANTS
    Pos <- Sky
    None = None
    Origin = 0
    Sep <- SkySep
    Carry <- SkyCarry
    MaxSync = 1
    MaxAge = 2
    SettleTicks = 1
    FreshWait = 1
    Retries = 1
    ConfirmTicks = 2
    OwnWindow = 2
    PassiveTicks = 2
    Forever = 2
    Below <- BelowIfLocated
    Unreachable = {}
    Copies = {1}
    Modes = {"AUTO", "GOTO"}
    Actions = {"GOTO"}
    Starts <- OffByOne
    Events = {"push", "move", "slip"}
    Places = {2, 3}
    Budget = 2
    WireCap = 2
    WorldPhases = {"idle"}
PROPERTIES
    ForwardEnds
    CorrectEnds
    PushToDelivered
    ConfirmResolved
    ExternalResolved
    TargetHeld
    Agreement
