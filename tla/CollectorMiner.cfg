SPECIFICATION Spec
CONSTANTS
    SidechainLag = 2
    ZMQOldAfter = 3
    Grain = 2
    Tolerance = 2
    P2PStaleAfter = 2
    ClockSkewMax = 1
    ReadTimeout = 1
    MaxTime = 6
    Foreign = TRUE
    Restarting <- Miner
    Steps <- NoSteps
    ZMQWritten <- ZeroAge
    Silent <- SilentMiner
    Faults <- AllReads
INVARIANTS MinerMatchesUnit NoFalseMinerAlarm
