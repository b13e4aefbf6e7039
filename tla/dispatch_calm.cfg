SPECIFICATION Spec
CONSTANTS
    r1 = r1
    r2 = r2
    w1 = w1
    w2 = w2
    Renders = {r1, r2}
    Workers = {w1, w2}
    Jobs = {1, 2, 3, 4}
    NumFrames <- TwoRenders
    Faults <- CalmFaults
    MaxFaults = 2
CHECK_DEADLOCK FALSE
INVARIANT OneFramePerWorker
PROPERTY ImplementsLedger
