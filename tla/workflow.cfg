\* Every blueprint and every cascade of three steps, two starts, one fault, two
\* workers that take the messages one after the other.
SPECIFICATION Spec
CONSTANTS
    Step = {a, b, c}
    Worker = {w1, w2}
    Actions = {"create", "destroy"}
    Approvals = {TRUE}
    MaxResources = 2
    MaxStarts = 2
    MaxQueue = 9
    FaultKinds = {"crash", "refuse", "fail", "callback"}
    MaxFaults = 1
CHECK_DEADLOCK FALSE
SYMMETRY Symmetry
CONSTRAINT HandlersApart
INVARIANTS
    TypeOK
    NoSilentStall
    LevelsInOrder
    DoneStepIsDone
    DoneMeansAllDone
    OneResourcePerStep
    ExclusiveTasks
PROPERTY
    RowsKeepPromise
