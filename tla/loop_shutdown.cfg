SPECIFICATION FairSpec
CONSTANTS
    w1 = w1
    w2 = w2
    Workers = {w1, w2}
    Threads = {1, 2}
    MaxFrames = 2
    MaxRejects = 0
    MaxSpurious = 0
    CanStop = TRUE
CHECK_DEADLOCK FALSE
PROPERTY CallsDoNotBlockLoop
