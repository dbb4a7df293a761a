SPECIFICATION FairSpec
CONSTANTS
    RingCap = 2
    StepCodes <- MCStepCodes
    NoStep <- MCNoStep
    MaxConns = 2
    MaxBreaks = 3
    MaxCmds = 3
INVARIANTS
    PauseHasAnOwner
    HeldPauseIsOffered
PROPERTY NeverStranded
CHECK_DEADLOCK FALSE
