SPECIFICATION Spec
CONSTANTS
    Threads = {t1, t2}
    PoolSize = 4
    Increments <- MCIncrements
    Layouts <- MCLayouts
    MaxCalls = 2
    Usages = {"sbrk", "both"}
    NULL = NULL
    NoThread = NoThread
CHECK_DEADLOCK FALSE
INVARIANTS
    GrantsApart
    GrantsBacked
PROPERTIES
    SbrkReturnsPreviousBreak
    HeapKept
    EveryCallReturns
