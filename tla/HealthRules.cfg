SPECIFICATION Spec
CONSTANTS
    SidechainLag = 2
    ZMQOldAfter = 3
    Loads <- SomeLoads
    Actives <- ActiveStates
    XSources <- XMRigSources
    PSources <- P2PSources
    Counts <- SomeCounts
    Heights <- SomeHeights
    Ages <- SomeAges
INVARIANTS OkIsEarned DegradedDominates DegradedIsExplained DoctorAgrees DegradedIsDiagnosed
