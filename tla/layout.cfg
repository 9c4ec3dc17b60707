SPECIFICATION FileSpec
CONSTANTS
    Program <- MCProgram
    Data <- MCData
    ExtraText = 1000
    Layouts <- PossibleLayouts
    Extension = ".inst"
INVARIANTS
    RunsAsPlanned
    DynamicPointIsWhole
    LoadedWhereExpected
    LinkedAsDeclared
    TextWhole
    TablesAnswer
