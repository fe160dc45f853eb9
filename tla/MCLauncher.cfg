SPECIFICATION Spec
CONSTANTS
    Launches = {l1, l2}
    Layouts <- MCLayouts
    Memory = 6
    GBPages = 2
INVARIANTS
    ReservedIfItFits
    NeverShortAlone
CHECK_DEADLOCK FALSE
