CONSTANTS
    a = a
    b = b
    FirstImage = i1
    Images = {i1, i2}
    Threads = {t1}
    Block0 = a
    Blocks = {a, b}
    Memops <- MCMemops
    Capacity = 5
    AccessLimit = 2
    SampleOn = 3
    SampleOff = 3
    NoThread = none
    Blank = blank
SPECIFICATION FairSpec
INVARIANTS ModeFollowsSampler WholeBlocks
PROPERTY SamplingResumes
CHECK_DEADLOCK FALSE
