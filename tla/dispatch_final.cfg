SPECIFICATION Spec
CONSTANTS
    r1 = r1
    r2 = r2
    w1 = w1
    w2 = w2
    Renders = {r1}
    Workers = {w1}
    Jobs = {1, 2}
    NumFrames <- OneFrame
    Faults <- CrashFault
    MaxFaults = 1
CHECK_DEADLOCK FALSE
PROPERTY CompletedIsFinal
