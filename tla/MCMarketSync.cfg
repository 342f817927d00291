SPECIFICATION SyncFairSpec
CONSTANTS
    e1 = e1
    e2 = e2
    m1 = m1
    m2 = m2
    m3 = m3
    NoRow = NoRow
    Event = {e1, e2}
    Market = {m1, m2, m3}
    EventOf <- MCEventOf
    MarketsOf <- MCMarketsOf
    NegRisk = {e1}
    Tokenless = {}
    Silent = {m2}
    Liquidity <- MCLiquidity
    Floor = 2
    TopN = 1
    Page = 1
    MaxEvents = 3
    MaxRefresh = 1
    MaxMoves = 2
    MaxFaults = 1
INVARIANTS
    SyncTypeOK
    GroupsSound
PROPERTIES
    ClosedEventually
