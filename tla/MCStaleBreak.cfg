SPECIFICATION Spec
CONSTANTS
    Threads = {t1}
    PoolSize = 4
    Increments <- MCIncrements
    Layouts <- MCLayouts
    MaxCalls = 2
    Usages = {"both"}
    NULL = NULL
    NoThread = NoThread
CHECK_DEADLOCK FALSE
PROPERTY ReturnsPreviousBreak
