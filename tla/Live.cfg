CONSTANTS
    Asset <- MCAsset
    Price <- MCPrice
    Size <- MCSize
    DISPLAY_DEPTH = 1
    MaxBackoffSecs = 1
    ShiftBits = 4
    MaxAttempts = 1
    Capacity = 1
    XBooks <- MCXBooks
    Deltas <- MCDeltas
    MaxUpdates = 2
    MaxWire = 2
SPECIFICATION LiveSpec
INVARIANTS InSync EndToEnd
PROPERTIES NoMixture Converges
CHECK_DEADLOCK FALSE
