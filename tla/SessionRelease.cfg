CONSTANTS
    WithShutdown = TRUE
    MaxBackoffSecs <- MCMaxBackoffSecs
    ShiftBits <- MCShiftBits
    Builds = {"debug", "release"}
    MaxAttempts <- MCMaxAttempts
SPECIFICATION RunnerSpec
INVARIANTS TypeOK PhaseFits CallbackOrder StopsOnlyOnRequest
PROPERTIES NoEventLost BackoffGrows LossResolved ShutdownCompletes
CHECK_DEADLOCK FALSE
