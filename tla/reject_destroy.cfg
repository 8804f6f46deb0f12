\* Rejecting a destruction.
SPECIFICATION Spec
CONSTANTS
    net = net
    vm = vm
    Resource = {vm}
    Worker = {w1}
    Request = {q1}
    Parents <- OneResource
    Abstract = {}
    ApprovalFlow = TRUE
    Offered <- Ordinary
    Edits = {}
    MaxRetries = 0
    FaultKinds = {}
    MaxFaults = 0
    MaxCopies = 1
CHECK_DEADLOCK FALSE
INVARIANT
    DoneMeansApplied
