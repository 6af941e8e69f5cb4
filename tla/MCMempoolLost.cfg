SPECIFICATION Spec
CONSTANTS
    t1 = t1
    t2 = t2
    t3 = t3
    w1 = w1
    w2 = w2
    Txs <- MCTxs
    Wallets <- MCWallets
    From <- MCFrom
    Amount <- MCAmount
    Fee <- MCFee
    Size <- MCSize
    Balance <- MCAmple
    Inadmissible = {}
    Poison = {}
    MaxTxs = 3
    MaxBytes = 6
    MaxAttempts = 1
    SelectMax = 1
    AutoMiner = auto
    RestMiners = {}
    Rotates = FALSE
    NoTx = NoTx
    NoSweep = NoSweep
    MaxSubmits = 1
    MaxDeliveries = 0
    MaxFaults = 0
    MaxCrashes = 1
    MaxSweeps = 0
    Resubmits = FALSE
INVARIANT AckedAccounted
