SPECIFICATION FairSpec
CONSTANTS
    Component = {"engine", "scan_task"}
    Market = {"m"}
    Text = {"before", "after"}
    StaleAge = 1
    FileAge = 1
    MaxTime = 2
    MaxRows = 2
    MaxFaults = 1
INVARIANTS
    TypeOK
    ReportsSound
PROPERTIES
    PictureConverges
CHECK_DEADLOCK FALSE
