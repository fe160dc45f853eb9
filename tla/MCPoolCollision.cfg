SPECIFICATION Spec
CONSTANTS
    Top = 9
    HeapBase = 1
    AnonSize = 3
    BrkSize = 2
    FileSizes = {2}
    Lengths = {1, 2}
    RESIZE_THRESHOLD = 1
    MaxOthers = 1
    MaxRanges = 4
    MaxHints = 0
CHECK_DEADLOCK FALSE
INVARIANT NoCollisionOfPools
