SPECIFICATION FairSpec
CONSTANTS
    Concurrency = 2
    MaxPieces = 2
    f1 = f1
    f2 = f2
    Order <- MCOrder
INVARIANTS
    PassWasReported
    GreenMeansPassed
    ChildrenAreOwned
    HeardIsBelieved
PROPERTIES
    RunEnds
CHECK_DEADLOCK FALSE
