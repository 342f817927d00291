SPECIFICATION FairSpec
CONSTANTS
    arb = arb
    part = part
    study = study
    g1 = g1
    NoGroup = NoGroup
    Signal <- MCSignal
    Strategy <- MCStrategy
    Group <- MCGroup
    Partition = {part}
    Sets <- MCSets
    SignalLegs <- MCLegs
    Inventory <- MCInventory
    One = 10
    Configs <- MCConfigs
    MaxOrder = 4
    MaxSignal = 8
    MaxOpen = 10
    MaxLoss = 1
    MaxDrift = 1
    Figures <- MCFigures
    QueueSize = 1
    MaxFaults = 1
INVARIANTS
    TypeOK
    OneOrderPerLeg
    PlansAccounted
PROPERTIES
    GatesHold
    EventsHandled
    ImplementsOrderLife
