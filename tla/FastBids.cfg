CONSTANTS
    Price <- MCPrice
    Size <- MCSize
    Snapshots <- MCSnapshots
    IsBid = TRUE
    NONE = 3
SPECIFICATION FastSpec
INVARIANTS TypeOK ListInv FreeListInv IterIsRanked
PROPERTIES CallsReturn ImplementsBookSide
