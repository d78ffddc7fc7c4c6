SYMMETRY LabelSymmetry
SPECIFICATION Spec
CONSTANTS
    Labels = {a, b}
    NoLabels = NoLabels
    Times = {1, 2}
    Values = {x}
    MaxBatch = 2
    MaxRecs = 4
    MaxSegs = 5
    MaxFaults = 0
    MaxCrashes = 3
INVARIANTS
    NoSilentLoss
    ReplayNeverRefuses
    LogInOrder
    ReplayExact
CHECK_DEADLOCK FALSE
