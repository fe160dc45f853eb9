SPECIFICATION CallSpec
CONSTANTS
    Callers = {t1, t2, t3}
INVARIANTS
    InitOnce
    InitBeforeUse
PROPERTIES
    EveryCallReturns
