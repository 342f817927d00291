SPECIFICATION FairSpec
CONSTANTS
    Asset = {1, 2, 3}
    Level = {1, 2}
    Universes <- MCUniverses
    PerConn = 2
    SampleSize = 1
    MaxChanges = 1
    MaxDrops = 2
    MaxRaises = 1
    MaxSyncs = 2
INVARIANTS
    TypeOK
PROPERTIES
    BooksAgree
    ChunksReconnect
CHECK_DEADLOCK FALSE
