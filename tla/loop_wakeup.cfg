SPECIFICATION FairSpec
CONSTANTS
    w1 = w1
    w2 = w2
    Workers = {w1}
    Threads = {1}
    MaxFrames = 1
    MaxRejects = 0
    MaxSpurious = 0
    CanStop = FALSE
CHECK_DEADLOCK FALSE
PROPERTY IdleWorkerGetsFrame
