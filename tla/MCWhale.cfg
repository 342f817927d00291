SPECIFICATION FairSpec
CONSTANTS
    w1 = w1
    w2 = w2
    t1 = t1
    t2 = t2
    Zero = Zero
    Wallet = {w1, w2}
    OutcomeToken = {t1}
    Blocks <- MCBlocks
    Payouts = {"open", "won"}
    Setups <- MCSetups
    Lookback = 1
    MaxSpan = 1
    BatchLimit = 1
    MinResolved = 1
    Bar = 60
    MaxHead = 3
    MaxFaults = 1
INVARIANTS
    TypeOK
    TradesRecorded
    WalletsRated
PROPERTIES
    OldestRated
