SPECIFICATION Spec
CONSTANTS
    Keys <- MenuKeys
    HistoryLen = 2
    MaxSession = 0
    MaxRejected = 0
    MaxViewers = 0
    PayTimer = TRUE
    Faults <- NoFaults
INVARIANTS NoOperationDropped
PROPERTIES StopIsConfirmed SingleFlight
