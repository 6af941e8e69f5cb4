SPECIFICATION Spec
CONSTANTS
    a1 = a1
    a2 = a2
    a3 = a3
    b1 = b1
    b2 = b2
    b3 = b3
    v1 = v1
    v2 = v2
    Genesis = Genesis
    None = None
    Junk = Junk
    Blocks <- MCBlocks
    Parent <- MCParent
    HeightOf <- MCHeightOf
    Chain <- MCChain
    Validators = {v1}
    Producer <- MCOneProducer
    LeaderOf <- MCHashLeader
    BadRoots = {}
    BadClaims = {}
    Gossiped = {b2}
    Served = {}
    Fetched = {}
    Mineable = {a1, a2, a3}
    Weights = {1}
    QueueCap = 2
    MaxBackfillDepth = 2
    PruneDepth = 1
    PruneEvery = 1
    MaxArrivals = 2
    MaxCaac = 0
    MaxLosses = 1
    MaxCrashes = 0
CHECK_DEADLOCK FALSE
INVARIANT StoreSound
