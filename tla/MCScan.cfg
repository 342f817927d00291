SPECIFICATION ScanFairSpec
CONSTANTS
    Market = {"m1", "m2"}
    Group = {"g"}
    Token = {"y1", "n1", "y2", "n2"}
    TokenYes <- MCYes
    TokenNo <- MCNo
    GroupOf <- MCGroupOf
    Tracked = {"y1", "n1", "y2"}
    Followed = {"y1"}
    Quotes <- MCQuotes
    Fee <- MCFee
    Buffer = 1
    MinSets = 5
    Ids <- MCIds
    Question <- MCQuestion
    Articles <- MCArticles
    MinOverlap = 2
    TopK = 1
    IndexRefresh = 0
    NewsRefresh = 1
    Debounce <- MCDebounce
    QueueSize = 2
    MaxMoves = 2
    MaxCloses = 1
    MaxFaults = 1
INVARIANTS
    ScanTypeOK
    WindowsAccounted
PROPERTIES
    ClosedMarketsQuiet
    PersistentLogged
CHECK_DEADLOCK FALSE
