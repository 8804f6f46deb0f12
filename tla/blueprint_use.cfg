\* Two templates, one with two versions and a parent of which there are two.
SPECIFICATION Spec
CONSTANTS
    None = None
    Absent = Absent
    Blank = Blank
    Spaces = Spaces
    Typed = Typed
    net = net
    app = app
    db = db
    n1 = n1
    n2 = n2
    a1 = a1
    a2 = a2
    d1 = d1
    size = size
    zone = zone
    c1 = c1
    Template = {app, db}
    External = {net}
    Missing <- MCMissing
    Resource = {n1, n2}
    Version = {a1, a2, d1}
    TemplateOf <- MCTemplateOf
    Latest <- MCLatest
    Var = {size, zone}
    Default <- MCDefault
    Required <- MCRequired
    Wired <- MCWired
    Constant = {c1}
    Wire <- MCWire
    MaxEdits = 4
    MaxFailures = 1
CHECK_DEADLOCK FALSE
INVARIANTS
    TypeOK
    SentIsComplete
    PageFitsChoice
