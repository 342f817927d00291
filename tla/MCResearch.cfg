SPECIFICATION ResearchSpec
CONSTANTS
    Market = {"m1", "m2"}
    Group = {"g"}
    Token = {"y1", "n1", "y2", "n2"}
    TokenYes <- MCYes
    TokenNo <- MCNo
    GroupOf <- MCGroupOf
    QuotesOf <- MCQuotesOf
    EntriesOf <- MCEntriesOf
    Traded = {"y1"}
    TradePrices = {99}
    Fee <- MCFee
    Micro <- MCMicro
    Rv <- MCRv
    Mom <- MCMom
    Horizon = 1
    MidSample = 1
    IndexRefresh = 1
    QueueSize = 2
    MaxTime = 2
    MaxEvents = 3
    MaxTroubles = 1
INVARIANTS
    ResearchTypeOK
    ReplayAgrees
    SamplesSound
CHECK_DEADLOCK FALSE
