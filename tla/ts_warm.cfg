CONSTANTS
    Main = main
    Threads = {main, t1, t2}
    MayExit = {}
    CountMod = 5
    NoThread = none
SPECIFICATION FairSpecWarm
INVARIANTS PatchExclusion CountAsserts
PROPERTIES StopsTheWorld SuspendCompletes StoppedThreadResumes
