CONSTANTS
    Client <- MCClient
    Capacity <- MCCapacity
    MaxPublished <- MCMaxPublished
SPECIFICATION DashboardSpec
INVARIANTS SkippedOnlyIfOverwritten NoOlderAnswer
PROPERTIES SnapshotsServed RequestsAnswered
CHECK_DEADLOCK FALSE
