SPECIFICATION Spec
CONSTANTS
    r1 = r1
    r2 = r2
    w1 = w1
    w2 = w2
    Renders = {r1}
    Workers = {w1, w2}
    Jobs = {1, 2, 3}
    NumFrames <- OneRenderTwoFrames
    Faults <- AllFaults
    MaxFaults = 2
SYMMETRY WorkerSymmetry
CHECK_DEADLOCK FALSE
INVARIANTS
    TypeOK
    NoLostFrame
    OneOwnerPerFrame
    CountMatchesLinks
    CompletedHasEveryLink
    FinalisedOnce
    CallbackFindsEntry
    BusyWorkerHasJob
