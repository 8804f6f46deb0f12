\* A chain of three templates; one constant.
SPECIFICATION Spec
CONSTANTS
    net = net
    vm = vm
    app = app
    Template = {net, vm, app}
    size = size
    First <- MCFirst
    Constant = {size}
    ParentsOf <- MCParentsOf
    References <- MCReferences
    MaxEdits = 2
    MaxFailures = 1
CHECK_DEADLOCK FALSE
INVARIANTS
    TypeOK
    WiresFit
    IdsMatchSelection
    SortedWhenQuiet
    NothingForgotten
    RowFits
PROPERTY
    Settles
