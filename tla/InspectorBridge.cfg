SPECIFICATION BridgeFairSpec
CONSTANTS
    MaxInspectors = 3
    MaxCloses = 3
    o1 = o1
    o2 = o2
    Openers <- MCOpeners
INVARIANTS
    LiveIsCurrent
    ClosedForGood
PROPERTIES
    CloseLeavesNothing
    PromisesSettle
CHECK_DEADLOCK FALSE
