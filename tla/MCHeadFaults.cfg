SPECIFICATION FairSpec
CONSTANTS
    Labels = {a, b}
    NoLabels = NoLabels
    Times = {1, 2}
    Values = {x}
    MaxBatch = 1
    MaxRecs = 4
    MaxSegs = 5
    MaxFaults = 2
    MaxCrashes = 1
INVARIANTS
    TypeOK
    NoRefConflict
    StoreMatchesLog
    NoSilentLoss
    CommittedHeld
PROPERTY CallsReturn
CHECK_DEADLOCK FALSE
