SPECIFICATION AlignedFairSpec
CONSTANTS
    Pos <- Sky
    None = None
    Origin = 0
    Sep <- SkySep
    Carry <- SkyCarry
    MaxSync = 1
    MaxAge = 1
    SettleTicks = 1
    FreshWait = 1
    Retries = 1
    ConfirmTicks = 1
    OwnWindow = 2
    PassiveTicks = 2
    Forever = 1
    Below = {4}
    Unreachable = {}
    Copies = {1}
    Modes = {"VERIFY"}
    Actions = {"GOTO"}
    Starts <- OffByOne
    Events = {"align"}
    Places = {1, 2, 3}
    Budget = 1
    WireCap = 2
    WorldPhases = {"idle"}
    PointLists <- TwoPoints
    GiveUpTicks = 2
PROPERTIES
    AppearingAlignSynced
