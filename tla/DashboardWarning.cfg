SPECIFICATION Spec
CONSTANTS
    Keys <- NoKeys
    HistoryLen = 2
    MaxSession = 2
    MaxRejected = 1
    MaxViewers = 0
    PayTimer = FALSE
    Faults <- NoFaults
INVARIANTS WarningOfOneSession
