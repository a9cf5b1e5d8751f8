CONSTANTS
    Threads = {main, worker}
    Loopers = {main}
    Askers = {main}
    NoThread = free
    Size = 2
    SndCap = 3
    PipeCap = 4
    MaxPush = 3
    MaxIn = 2
    MayClose = TRUE
SPECIFICATION FairSpec
INVARIANTS TypeInv NoLostWakeup SentInOrder
PROPERTIES PushedIsSent LiveQueryReturns
CHECK_DEADLOCK FALSE
