SPECIFICATION Spec
CONSTANTS
    a1 = a1
    a2 = a2
    a3 = a3
    b1 = b1
    b2 = b2
    b3 = b3
    v1 = v1
    v2 = v2
    Genesis = Genesis
    None = None
    Junk = Junk
    Blocks <- MCBlocks
    Parent <- MCParent
    HeightOf <- MCHeightOf
    Chain <- MCChain
    Validators = {v1, v2}
    Producer <- MCTwoProducers
    LeaderOf <- MCCaacLeader
    BadRoots = {}
    BadClaims = {}
    Gossiped = {a1, b1}
    Served = {}
    Fetched = {}
    Mineable = {a2}
    Weights = {1, 2}
    QueueCap = 2
    MaxBackfillDepth = 2
    PruneDepth = 2
    PruneEvery = 1
    MaxArrivals = 2
    MaxCaac = 1
    MaxLosses = 0
    MaxCrashes = 0
CHECK_DEADLOCK FALSE
INVARIANT MinedRootIsPreviewed
