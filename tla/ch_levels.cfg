CONSTANTS
    LevelCount = 3
    SetCount <- MixedSets
    Associativity <- MixedAssoc
    LineSize <- Two
    Policy <- MixedPolicy
    FirstExclusives = {1, 3}
    HighAssoc = {1, 2}
    Addresses = {2, 4, 6, 9}
    MemIds = {m1}
    W = 2
SPECIFICATION FairSpec
INVARIANTS StoredOnce FlowsDown
PROPERTY AccessEnds
