\* One resource, two overlapping requests, two workers, repeated tasks.
SPECIFICATION Spec
CONSTANTS
    net = net
    vm = vm
    Resource = {vm}
    Worker = {w1, w2}
    Request = {q1, q2}
    Parents <- OneResource
    Abstract = {}
    ApprovalFlow = FALSE
    Offered <- Restarting
    Edits = {}
    MaxRetries = 0
    FaultKinds = {}
    MaxFaults = 0
    MaxCopies = 1
CHECK_DEADLOCK FALSE
SYMMETRY Symmetry
INVARIANTS
    InProgressHasOwner
