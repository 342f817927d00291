SPECIFICATION Spec
CONSTANTS
    logger = logger
    scan = scan
    execution = execution
    Consumer = {logger, scan, execution}
    Logger = logger
    Topic = {"book", "signal", "system"}
    Lossless = {"signal", "system"}
    Interest <- MCInterest
    MaxSize = 1
    LosslessMaxSize = 2
    MaxEvents = 5
INVARIANTS
    TypeOK
    LosslessKept
    LossesAccounted
CHECK_DEADLOCK FALSE
