SPECIFICATION FairSpec
CONSTANTS
    w1 = w1
    w2 = w2
    Workers = {w1, w2}
    Threads = {1, 2, 3}
    MaxFrames = 2
    MaxRejects = 1
    MaxSpurious = 1
    CanStop = TRUE
CHECK_DEADLOCK FALSE
INVARIANTS
    TypeOK
    PushIsNeverMissed
    
    ExitLeavesNoThread
PROPERTIES
    DispatchThreadsFinish
    SleeperHearsPush
