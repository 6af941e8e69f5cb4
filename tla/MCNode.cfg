SPECIFICATION NodeSpec
CONSTANTS
    NetWorker = {"w1","w2"}
    NetJob = {1,2}
    MinBond = 1
    GuardianGrant = 1
    GuardianPlaces = 1
    PoolStart = 2
    LiquidStart <- MCLiquid
    MaxNetNonce = 2
    MaxNetRestarts = 1
    MaxCaac = 1
    MaxRegistering = 1
    BootWallet = {"founder","pool","user"}
    Allocation <- MCAllocation
    StartDbs <- MCStarts
    Factor = 2
    BootKey = {"k1","k2"}
    Snapshotter = {"t1","t2"}
    Auditor = {"a1","a2"}
    MaxEvents = 3
    AuditMax = 1
    MaxBootCrashes = 2
    MaxPays = 1
    GatePeer = {"p"}
    Branch = {"a","b"}
    OwnBranch = "a"
    GateRoles <- MCRoles
    StartHeights = {0,1}
    StableSec = 2
    Grace = 1
    MaxGateHeight = 2
    MaxHellos = 2
    MaxGateRestarts = 1
    Client = {"a","b"}
    Rate = 1
    BurstSize = 2
    MaxClients = 1
    IdleDrop = 2
    UploadSizes = {0,2}
    UploadCap = 3
    DayTicks = 2
    StallAfter = 1
    ExitAfter = 2
    MaxGuardTime = 4
    MaxGuardRestarts = 1
    MaxRequests = 4
INVARIANTS  WorkersSound  GuardsHold
PROPERTY NodeLive
CHECK_DEADLOCK FALSE
