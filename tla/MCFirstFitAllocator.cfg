SPECIFICATION Spec
CONSTANTS
    Start = 1
    End = 7
    TableLen = 5
    Sizes <- MCSizes
    Clients = {"whole", "prefix", "any"}
VIEW MCView
INVARIANTS
    ListsPartitionTable
    ListsSorted
    ValidForWholeFrees
PROPERTIES
    ImplementsFirstFit
