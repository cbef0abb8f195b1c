CONSTANTS
    Price <- MCPrice
    Size <- MCSize
    Snapshots <- MCSnapshots
    IsBid = FALSE
    NONE = 3
    MAX_HEIGHT = 2
SPECIFICATION SkipSpec
INVARIANTS LaneInv UpdateInv FreeListInv IterIsRanked
PROPERTIES CallsReturn ImplementsBookSide
