SPECIFICATION Spec
CONSTANTS
    Threads = {t1, t2}
    Slots = {0, 2}
    SystemMemory = 4
    MaxMaps = 1
    MaxFrees = 1
    MaxSlots = 2
CHECK_DEADLOCK FALSE
INVARIANTS
    ReadyBeforeUse
    PoolRangesStayInside
    NothingLeftOver
PROPERTIES
    StartupEnds
