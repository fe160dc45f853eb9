SPECIFICATION ParseSpec
CONSTANTS
    BASE_4KB = 1
    HUGE_2MB = 2
    HUGE_1GB = 4
    Type <- Mmap
    BrkType <- Brk
    FileType <- File
    Letters <- MCLetters
    Digits <- MCDigits
    SIZE_T = 64
    Files <- MCFiles
INVARIANTS
    ReadAsWritten
    RefusedIfBad
    LegacyApart
    BackedAsListed
CHECK_DEADLOCK FALSE
