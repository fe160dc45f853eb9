SPECIFICATION PoolSpec
CONSTANTS
    Start = 1
    End = 7
    TableLen = 4
    Sizes <- MCSizes
    Clients = {"whole", "prefix"}
    Layouts <- MCLayouts
    RESIZE_THRESHOLD = 2
VIEW MCView
CHECK_DEADLOCK FALSE
INVARIANTS
    Backed
    SlackBounded
    PeakCovers
PROPERTIES
    StoredDataKept
