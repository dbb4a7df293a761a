SPECIFICATION FairSpec
CONSTANTS
    a = a
    b = b
    c = c
    None = None
    MaxImports = 2
    Modules <- MCModules
    Graphs <- MCGraphs
INVARIANTS
    AssertionsHold
    StartsAfterItsRequests
    PromiseTellsOutcome
PROPERTIES
    RunsOnce
    ImportSettlesOrMeetsFlagged
CHECK_DEADLOCK FALSE
