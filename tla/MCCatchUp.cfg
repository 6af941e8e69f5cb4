CONSTANTS
    p1 = p1
    p2 = p2
    Peers = {p1, p2}
    Honest = {p1}
    Bootnodes = {p2}
    Pinned = {}
    Relays = {}
    SoleValidator = FALSE
    BlacklistTtl = TRUE
    ApplyCap = 3
    MaxBatch = 2
    NoPeer = NoPeer
    NoRequest = NoRequest
    NoJob = NoJob
    MaxHeight = 2
    RequestIds = {1, 2}
    MaxMessages = 2
    MaxFaults = 1
SPECIFICATION FairSpec
INVARIANTS AheadImpliesTriggered WaitsForWork BatchesSound
PROPERTIES CatchesUp GateReopens
CHECK_DEADLOCK FALSE
