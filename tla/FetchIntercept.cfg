SPECIFICATION FairSpec
CONSTANTS
    RingCap = 2
    MaxConns = 2
    MaxBreaks = 2
    r1 = r1
    r2 = r2
    Requests <- MCRequests
INVARIANTS
    HeldForItsClient
    AnswerIsNotOvertaken
    EveryWaitIsOwned
PROPERTIES
    WaitsForItsClient
CHECK_DEADLOCK FALSE
