SPECIFICATION Spec
CONSTANTS
    Contexts = {1}
    ExpectedCounts = {2}
    MaxRings = 2
    MaxFrames = 2
    MaxFiles = 2
    MaxFaults = 1
    QueueMax = 1
    HeldMax = 1
    PendingCap = 1
    MapCap = 1
    HardRows = 0
CHECK_DEADLOCK FALSE
INVARIANTS FilesTruthful FramesKeptOnce
PROPERTY FileOpEnds
