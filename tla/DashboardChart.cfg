SPECIFICATION Spec
CONSTANTS
    Keys <- NoKeys
    HistoryLen = 2
    MaxSession = 2
    MaxRejected = 0
    MaxViewers = 0
    PayTimer = FALSE
    Faults <- AllFaults
INVARIANTS TypeOK ProvenPointsOfOneSession
