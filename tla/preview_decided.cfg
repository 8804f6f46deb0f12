\* Previewing an edit that is decided before a worker takes the preview; nothing overlaps.
SPECIFICATION Spec
CONSTANTS
    net = net
    vm = vm
    Resource = {vm}
    Worker = {w1}
    Request = {q1}
    Parents <- OneResource
    Abstract = {}
    ApprovalFlow = TRUE
    Offered <- Previewing
    Edits = {{"variables"}}
    MaxRetries = 0
    FaultKinds = {}
    MaxFaults = 0
    MaxCopies = 1
CHECK_DEADLOCK FALSE
ACTION_CONSTRAINT OneAtATime
INVARIANT
    ExecutionIsApproved
