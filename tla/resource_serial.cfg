\* A parent without code and a child, one request at a time, one fault.
SPECIFICATION Spec
CONSTANTS
    net = net
    vm = vm
    Resource = {net, vm}
    Worker = {w1, w2}
    Request = {q1}
    Parents <- ParentAndChild
    Abstract = {net}
    ApprovalFlow = TRUE
    Offered <- Ordinary
    Edits = {{"variables"}, {"settings"}}
    MaxRetries = 0
    FaultKinds = {"lost", "commit", "crash"}
    MaxFaults = 1
    MaxCopies = 1
CHECK_DEADLOCK FALSE
SYMMETRY WorkerSymmetry
INVARIANTS
    TypeOK
    NoOrphanInfra
    DestroyedIsEmpty
    ExclusiveExecution
    NeverStranded
    PendingEditBlocksDestroy
    ExecutionIsApproved
PROPERTY
    KeepsPromise
