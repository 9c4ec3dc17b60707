CONSTANTS
    Registers <- AllRegisters
    Words <- SomeWords
    Addresses <- SomeAddresses
    Places <- SomePlaces
    AutoInc = 128
    StackAlign = 4096
    Points <- AllPoints
    OthersSave = TRUE
SPECIFICATION CodeSpec
INVARIANTS
    
    ProgramUndisturbed
    DoesWhatWasMeant
CHECK_DEADLOCK FALSE
