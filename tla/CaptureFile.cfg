CONSTANTS
    Capacity <- MCCapacity
    MaxValues <- MCMaxValues
    MaxFaults <- MCMaxFaults
SPECIFICATION CaptureSpec
INVARIANTS ReplayedInOrder LossBounded DisconnectionIsDurable
CHECK_DEADLOCK FALSE
