CONSTANTS
    LevelCount = 2
    SetCount <- One
    Associativity <- ThreeTwo
    LineSize <- One
    Policy <- TrueLru
    FirstExclusives = {0}
    HighAssoc = {}
    Addresses = {1, 2, 3, 4, 5, 6}
    MemIds = {m1}
    W = 1
SPECIFICATION Spec
PROPERTY IsLruStack
