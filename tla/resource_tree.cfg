\* A parent and a child whose requests overlap; tasks that are not ready.
SPECIFICATION Spec
CONSTANTS
    net = net
    vm = vm
    Resource = {net, vm}
    Worker = {w1, w2}
    Request = {q1, q2}
    Parents <- ParentAndChild
    Abstract = {}
    ApprovalFlow = TRUE
    Offered <- Relating
    Edits = {}
    MaxRetries = 1
    FaultKinds = {"lost", "commit", "crash"}
    MaxFaults = 1
    MaxCopies = 1
CHECK_DEADLOCK FALSE
SYMMETRY Symmetry
CONSTRAINT RequestsOnDifferentResources
INVARIANTS
    RunsApartAcrossLinks
