SPECIFICATION MCSpec
CONSTANTS
    Texts <- MCTexts
    Registers <- MCRegisters
    Flags <- MCFlags
    Memory <- MCMemory
    Size <- MCSize
INVARIANTS
    GraphCoversControl
    LivenessSafe
    LoopsRight
    BestPointIsBest
    DefUseIsNearest
    CountersCount
    EventsBalance
