SPECIFICATION Spec
CONSTANTS
    Start = 1
    End = 7
    TableLen = 4
    Sizes <- MCSizes
    Clients = {"whole", "prefix"}
VIEW MCView
INVARIANTS
    NoOverlap
    WithinTable
    NothingLost
PROPERTIES
    LostOnlyByFailedFree
    WholeFreeSucceeds
    ImplementsRanges
