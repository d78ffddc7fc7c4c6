SPECIFICATION Spec
CONSTANTS
    Labels = {a}
    NoLabels = NoLabels
    Times = {1, 2}
    Values = {x}
    MaxBatch = 1
    MaxRecs = 4
    MaxSegs = 5
    MaxFaults = 1
    MaxCrashes = 0
INVARIANT AckedSurvives
CHECK_DEADLOCK FALSE
