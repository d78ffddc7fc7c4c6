SPECIFICATION Spec
CONSTANTS
    Labels = {a}
    NoLabels = NoLabels
    Times = {1, 2}
    Values = {x}
    MaxBatch = 1
    MaxRecs = 4
    MaxSegs = 5
    MaxFaults = 0
    MaxCrashes = 1
INVARIANT CrashLeavesLogReadable
CHECK_DEADLOCK FALSE
