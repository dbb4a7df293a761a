SPECIFICATION Spec
CONSTANTS
    Preview = 2
    Caps = {1, 3}
    MaxCompleted = 1
    MaxCached = 2
    Interval = 1
    Stale = 2
    MaxBody = 3
    MaxTime = 3
    MaxPipe = 2
    MaxCommands = 1
    r1 = r1
    r2 = r2
    Requests <- MCRequests
SYMMETRY Symmetry
INVARIANTS
    NeverAWrongBody
CHECK_DEADLOCK FALSE
