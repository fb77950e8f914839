SPECIFICATION AlignedFairSpec
CONSTANTS
    Pos <- Sky
    None = None
    Origin = 0
    Sep <- SkySep
    Carry <- SkyCarry
    MaxSync = 1
    MaxAge = 2
    SettleTicks = 1
    FreshWait = 2
    Retries = 1
    ConfirmTicks = 1
    OwnWindow = 2
    PassiveTicks = 2
    Forever = 2
    Below = {4}
    Unreachable = {}
    Copies = {1}
    Modes = {"OFF", "VERIFY", "GOTO"}
    Actions = {"GOTO"}
    Starts <- OffByOne
    Events = {"start", "stop", "abort", "align", "hold", "restart"}
    Places = {2, 4}
    Budget = 2
    WireCap = 2
    WorldPhases = {"idle"}
    PointLists <- TwoPoints
    GiveUpTicks = 2
INVARIANTS
    AlignedTypeOK
    RunSolved
PROPERTIES
    RunSyncsAlone
    SyncedAtPoint
    HeldAligningQuiet
    RunEnds
    AlignSettled
