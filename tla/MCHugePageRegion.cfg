SPECIFICATION Spec
CONSTANTS
    BASE_4KB = 2
    HUGE_2MB = 4
    HUGE_1GB = 8
    Limit = 20
    PoolSizes = {0, 12, 18}
    Starts = {0, 1, 2, 4, 6, 8, 10, 12}
    Lengths = {0, 4, 6, 8}
    Configs <- ApartConfigs
    Bases = {16, 18, 20, 22}
    Stores = {0, 5, 8, 15}
INVARIANTS
    TypeOK
    Uniform
    NeverRefused
    WithinReservation
PROPERTIES
    ImplementsResizable
