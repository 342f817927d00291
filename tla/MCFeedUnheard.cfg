SPECIFICATION FairSpec
CONSTANTS
    Asset = {1, 2, 3}
    Level = {1, 2}
    Universes <- MCUniverses
    PerConn = 2
    SampleSize = 1
    MaxChanges = 1
    MaxDrops = 1
    MaxRaises = 1
    MaxSyncs = 2
PROPERTIES
    AlwaysReconnects
CHECK_DEADLOCK FALSE
