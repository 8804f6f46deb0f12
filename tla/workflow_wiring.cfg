\* A blueprint of two templates, the second wired to the first.
SPECIFICATION Spec
CONSTANTS
    Step = {a, b}
    Worker = {w1}
    Actions = {"create"}
    Approvals = {TRUE}
    MaxResources = 1
    MaxStarts = 1
    MaxQueue = 6
    FaultKinds = {}
    MaxFaults = 0
CHECK_DEADLOCK FALSE
SYMMETRY StepSymmetry
INVARIANT
    OutputsAreWired
