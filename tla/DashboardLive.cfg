SPECIFICATION FairSpec
CONSTANTS
    Keys <- ViewKeys
    HistoryLen = 2
    MaxSession = 0
    MaxRejected = 0
    MaxViewers = 1
    PayTimer = FALSE
    Faults <- NoFaults
INVARIANTS GuardsOwned
PROPERTIES OperationEnds LastOperationShown ExclusiveOnceDrained
