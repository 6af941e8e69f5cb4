SPECIFICATION Spec
CONSTANTS
    u = u
    w = w
    Users = {u, w}
    RestUsers = {w}
    Pool = Pool
    Treasury = Treasury
    Ecosystem = Ecosystem
    Dex = Dex
    Founder = Founder
    ApiPool = ApiPool
    None = None
    Txs <- MCTxs
    Bodies <- MCBodies
    Producer = w
    GenesisBalances <- MCGenesis
    MaxSupply = 10000
    BaseReward = 10
    ComputeReward = 20
    AirdropMicro = 150
    MaxRecipients = 1
    MinWorkerStake = 101
    ChallengerBond = 101
    GuardianGrant = 60
    MaxGuardians = 1
    Amounts = {101}
    MaxRest = 2
    MaxBlocks = 2
CHECK_DEADLOCK FALSE
INVARIANTS MoneySound  MarkersMatchChain
PROPERTY UndoIsExact
