SPECIFICATION FairSpec
CONSTANTS
    MaxSessions = 2
    PipeCap = 2
    w1 = w1
    w2 = w2
    Waiters <- MCWaiters
INVARIANTS
    HooksFollowSession
    NobodyForgotten
    DebuggerWaitHasAClient
PROPERTIES
    SessionsFollowLife
    StopHasItsOwnReason
    CallsSettle
CHECK_DEADLOCK FALSE
