\* Two templates, their versions, two candidate parents, two projects.
SPECIFICATION Spec
CONSTANTS
    None = None
    net = net
    vm = vm
    old = old
    v1 = v1
    v2 = v2
    n1 = n1
    n2 = n2
    p1 = p1
    p2 = p2
    w1 = w1
    w2 = w2
    Template = {net, vm}
    Version = {old, v1, v2}
    Resource = {n1, n2}
    Project = {p1, p2}
    Workspace = {w1, w2}
    Abstract = {net}
    Active = {old, v1}
    TemplateOf <- MCTemplateOf
    ParentsOf <- MCParentsOf
    ProjectOf <- MCProjectOf
    WorkspaceOf <- MCWorkspaceOf
    InRange = {p1, p2}
    Rank <- MCRank
    MaxEdits = 4
    MaxFailures = 2
CHECK_DEADLOCK FALSE
INVARIANTS
    TypeOK
    VariablesFit
    LoadingIsHonest
    ParentsFit
    ProjectFillsWorkspace
