SPECIFICATION Spec
CONSTANTS
    SidechainLag = 2
    ZMQOldAfter = 2
    Grain = 1
    Tolerance = 1
    P2PStaleAfter = 2
    ClockSkewMax = 1
    ReadTimeout = 1
    MaxTime = 4
    Foreign = FALSE
    Restarting <- Pool
    Steps <- SomeSteps
    ZMQWritten <- OneAge
    Silent <- SilentFile
    Faults <- UnitReads
INVARIANTS ConfirmedFileIsLive FreshIsFresh ConfirmedHasAge OkIsHonest
