CONSTANTS
    Price <- MCPrice
    Size <- MCSize
    Snapshots <- MCSnapshots
    IsBid = TRUE
SPECIFICATION BasicSpec
INVARIANTS YieldsReference
