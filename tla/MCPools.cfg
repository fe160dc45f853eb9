SPECIFICATION Spec
CONSTANTS
    Top = 7
    HeapBase = 1
    AnonSize = 3
    BrkSize = 1
    FileSizes = {0, 2}
    Lengths = {1, 2}
    RESIZE_THRESHOLD = 1
    MaxOthers = 1
    MaxRanges = 3
    MaxHints = 1
CHECK_DEADLOCK FALSE
INVARIANTS
    RegionsApart
    AnonRoutedHome
    HeldIsMapped
