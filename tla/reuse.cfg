CONSTANTS
    Addresses = {1, 2, 4, 9}
    Ids = {1, 2}
    Windows = {0, 3}
    BinIndividual = 2
    Amounts = {1}
    MaxSequence = 6
    SpatialWindow = 3
    SpatialBin = 1
    SpatialNMAX = 7
    Steps = 4
    IntBits = 12
    MaxDistance = 600
    TreeEntries = {1, 2, 3, 4, 5, 6, 7, 8, 9, 10, 11}
    IntRange = 11
SPECIFICATION PartsSpec
INVARIANTS   TreeKeepsTheWindow
CHECK_DEADLOCK FALSE
