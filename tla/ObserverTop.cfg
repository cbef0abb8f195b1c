CONSTANTS
    Asset <- MCAsset
    Labelled <- MCLabelled
    Price <- MCPrice
    Size <- MCSize
    Frames <- MCFrames
    DISPLAY_DEPTH = 2
SPECIFICATION ObserverSpec
INVARIANTS TypeOK PublishedIsCurrent
PROPERTIES PublishedWhole SnapshotReplaces
