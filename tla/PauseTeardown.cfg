SPECIFICATION Spec
CONSTANTS
    RingCap = 4
    StepCodes <- MCStepCodes
    NoStep <- MCNoStep
    MaxConns = 2
    MaxBreaks = 2
    MaxCmds = 2
PROPERTY TeardownStaysWithItsClient
CHECK_DEADLOCK FALSE
