\* One resource, overlapping requests about its edits and dry runs.
SPECIFICATION FairSpec
CONSTANTS
    net = net
    vm = vm
    Resource = {vm}
    Worker = {w1}
    Request = {q1, q2}
    Parents <- OneResource
    Abstract = {}
    ApprovalFlow = FALSE
    Offered <- Drafting
    Edits = {{"variables"}}
    MaxRetries = 0
    FaultKinds = {"leak", "unacked", "notify"}
    MaxFaults = 1
    MaxCopies = 1
CHECK_DEADLOCK FALSE
PROPERTY
    TasksEnd
