SPECIFICATION DataSpec
CONSTANTS
    Threads = {4, 8, 12, 20}
    Main = 8
    Images = {1, 2}
    Executable = 1
    Shift = 2
    Slots = 4
    Kinds <- MCKinds
    Memops <- MCMemops
    Addresses = {10, 20}
    Capacity = 2
    MaxEvents <- MCMaxEvents
    MinimumHighAssociativity = 4
    KILO = 8
    Word = 2048
    CacheFiles <- MCCacheFiles
    Readers = {1, 2}
INVARIANTS
    FindsItsOwn
    NothingLost
    ReportIsRight
    BuiltAsDescribed
