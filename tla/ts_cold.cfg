CONSTANTS
    Main = main
    Threads = {main, t1, t2}
    MayExit = {t1}
    CountMod = 5
    NoThread = none
SPECIFICATION SpecCold
INVARIANTS TypeOK KilledOnlyInInitWindow
CHECK_DEADLOCK FALSE
