CONSTANTS
    Threads = {main, worker}
    Loopers = {main}
    Askers = {main, worker}
    NoThread = free
    Size = 2
    SndCap = 3
    PipeCap = 4
    MaxPush = 3
    MaxIn = 2
    MayClose = FALSE
SPECIFICATION Spec
INVARIANT NoLostWakeup
CHECK_DEADLOCK FALSE
