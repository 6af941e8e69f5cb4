SPECIFICATION MCArrivals
CONSTANTS
    t1 = t1
    t2 = t2
    t3 = t3
    w1 = w1
    w2 = w2
    Txs <- MCTxs
    Wallets <- MCWallets
    From <- MCFrom
    Amount <- MCAmount
    Fee <- MCFee
    Size <- MCSize
    Balance <- MCAmple
    Inadmissible = {}
    Poison = {t3}
    MaxTxs = 3
    MaxBytes = 6
    MaxAttempts = 1
    SelectMax = 1
    AutoMiner = auto
    RestMiners = {rest}
    Rotates = FALSE
    NoTx = NoTx
    NoSweep = NoSweep
    MaxSubmits = 2
    MaxDeliveries = 1
    MaxFaults = 0
    MaxCrashes = 1
    MaxSweeps = 1
    Resubmits = FALSE
INVARIANT DurableSound
