SPECIFICATION ServicesSpec
CONSTANTS
    Members = {1,2,3}
    Offers <- MCOffers
    PeerSet <- MCPeerSet
    EpochLength = 2
    RootWindow = 3
    MaxRootScan = 4
    RootCacheCap = 1
    MaxMembers = 3
    Cooldown = 2
    PageSize = 1
    MaxPages = 3
    VerifyBudget = 1
    MaxRegTime = 4
    MaxSyncFaults = 1
    Inference = {"i1"}
    Challenger = {"c1","c2"}
    Worker = {"w1","w2"}
    Pipe = {"p1","p2"}
    Bond = 1
    Window = 1
    MaxDeliveries = 2
    MaxCourtTime = 2
    MaxCourtCrashes = 1
    Wallet = {"n","u"}
    NodeWallet = "n"
    Prompt = {"p"}
    Call = {"c1","c2"}
    OpeningFunds = 2
    MinBalance = 1
    Charge = 1
    Permits = 1
    CostLimit = 1
    CallCost = 1
    DailyCap = 1
    MaxNonce <- MCMaxNonce
    Mixes <- MCMixes
    GrantRequests <- MCGrants
    FeeRequests <- MCFees
    OpeningBalance = 3
    Floor = 2
    Amount = 1
    WelcomeCap = 2
    PerClient = 1
    PerWallet = 1
    PerDay = 2
    MaxPayDays = 2
    MaxInterrupts = 1
    MaxPayRestarts = 1
    Tasks = {1,2}
    Unprovable = {1}
    NoPrompt = {}
    RestClaims <- MCRest
    RemoteBlocks <- MCRemote
    MaxRemoteBlocks = 2
    MaxReorgs = 1
INVARIANTS RegistrySound    TasksSound
PROPERTIES OneVerdict EscrowHolds 
CHECK_DEADLOCK FALSE
