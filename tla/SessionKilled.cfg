CONSTANTS
    WithShutdown = TRUE
    MaxBackoffSecs <- MCMaxBackoffSecs
    ShiftBits <- MCShiftBits
    Builds = {"release"}
    MaxAttempts <- MCMaxAttempts
SPECIFICATION RunnerSpec
INVARIANTS SignalsHandled
CHECK_DEADLOCK FALSE
