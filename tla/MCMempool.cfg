SPECIFICATION MCFairArrivals
CONSTANTS
    t1 = t1
    t2 = t2
    t3 = t3
    w1 = w1
    w2 = w2
    Txs <- MCTxs
    Wallets <- MCWallets
    From <- MCFrom
    Amount <- MCAmount
    Fee <- MCFee
    Size <- MCSize
    Balance <- MCScarce
    Inadmissible = {}
    Poison = {t3}
    MaxTxs = 2
    MaxBytes = 4
    MaxAttempts = 1
    SelectMax = 1
    AutoMiner = auto
    RestMiners = {}
    Rotates = TRUE
    NoTx = NoTx
    NoSweep = NoSweep
    MaxSubmits = 2
    MaxDeliveries = 1
    MaxFaults = 1
    MaxCrashes = 0
    MaxSweeps = 0
    Resubmits = FALSE
INVARIANT AckedAccounted
INVARIANT IncludedOnce
INVARIANT OnlyPoisonFails
 
