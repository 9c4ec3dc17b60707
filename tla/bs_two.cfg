CONSTANTS
    a = a
    b = b
    FirstImage = i1
    Images = {i1}
    Threads = {t1, t2}
    Block0 = a
    Blocks = {a, b}
    Memops <- MCMemops
    Capacity = 3
    AccessLimit = 1
    SampleOn = 3
    SampleOff = 3
    NoThread = none
    Blank = blank
SPECIFICATION Spec
INVARIANTS  OneMode
PROPERTY LimitIsFinal
CHECK_DEADLOCK FALSE
