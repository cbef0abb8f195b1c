CONSTANTS
    WithShutdown = TRUE
    MaxBackoffSecs <- MCMaxBackoffSecs
    ShiftBits <- MCShiftBits
    Builds = {"release"}
    MaxAttempts <- MCMaxAttempts
SPECIFICATION RunnerSpec
PROPERTIES LossRestored
CHECK_DEADLOCK FALSE
