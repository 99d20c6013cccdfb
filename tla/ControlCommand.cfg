SPECIFICATION FairSpec
CONSTANTS
    Units <- Pair
    Client = "cli"
    Verbs <- AllVerbs
    Faults <- AllFaults
    MaxOther = 1
    MaxCrashes = 1
CHECK_DEADLOCK FALSE
INVARIANTS RestartIsReal LeftJobsAreTold StartNotRefused
PROPERTIES Exits
