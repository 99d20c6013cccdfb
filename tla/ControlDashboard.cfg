SPECIFICATION Spec
CONSTANTS
    Units <- Pair
    Client = "tui"
    Verbs <- Starts
    Faults <- NoFaults
    MaxOther = 0
    MaxCrashes = 0
CHECK_DEADLOCK FALSE
INVARIANTS StartNotRefused
