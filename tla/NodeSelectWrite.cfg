SPECIFICATION Spec
CONSTANTS
    Runs = {r1, r2, r3}
    DryRuns = {r3}
    Nodes = {n0, n1, n2}
    Origin = n0
    MaxEdits = 1
    Faults <- AllFaults
CHECK_DEADLOCK FALSE
INVARIANTS FileIsWhole NoLitter NodeWasChosen
PROPERTIES ImplementsRegister
