SPECIFICATION FairSpec
CONSTANTS
    m1 = m1
    Market = {m1}
    Bankroll = 1
    PerTrade = 1
    One = 1
    SharesBought = {2}
    BatchLimit = 1
    LoggedSignals <- MCSignals
    BookStates <- MCBooks
    Unresolved = Unresolved
    MaxSignals = 2
    MaxAborts = 1
INVARIANTS
    TypeOK
    TradesOnce
    MoneyAccounted
PROPERTIES
    ImplementsLedger
    Recycles
