SPECIFICATION LabelsSpec
CONSTANTS
    Markets <- MCMarkets
    Token = {"t1", "t2"}
    TokenYes <- MCTokenYes
    Category <- MCCategory
    EndsAt <- MCEndsAt
    Rates <- MCRates
    Weight <- MCWeight
    Logit <- MCLogit
    Sigmoid <- MCSigmoid
    Answers <- MCAnswers
    Threshold = 20
    MinTtm = 2
    Debounce = 4
    CalibrationPoll = 1
    Retry = 1
    SearchTime = 1
    Horizon = 1
    MaxAge = 3
    Batch = 1
    LabelPoll = 1
    Backoff = 1
    MaxBackoff = 2
    Prices = {40, 50}
    OtherLegs <- MCOtherLegs
    MaxTime = 4
    MaxMoves = 1
    MaxOthers = 1
    MaxFaults = 1
INVARIANTS
    LabelsTypeOK
    GoodPassesUsed
PROPERTIES
    RowsTimely
CHECK_DEADLOCK FALSE
