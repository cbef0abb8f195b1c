CONSTANTS
    Price <- MCPrice
    Size <- MCSize
    Snapshots <- MCSnapshots
    IsBid = FALSE
    NONE = 4
SPECIFICATION FastSpec
INVARIANTS PoolPartition ListOrdered
PROPERTIES GhostsOnlyFromBooks
