\* Two commits, two inputs of the user or of other entities, three lines of log.
SPECIFICATION Spec
CONSTANTS
    None = None
    MAX_LOG_MESSAGES = 2
    MaxChanges = 2
    MaxInputs = 2
    MaxLines = 3
    MaxFaults = 1
CHECK_DEADLOCK FALSE
INVARIANTS
    TypeOK
    PageIsCurrent
    LoadingEnds
    OneActionAtATime
    TailIsLog
    NoStrandedLine
