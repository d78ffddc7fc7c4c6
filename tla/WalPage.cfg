SPECIFICATION Spec
CONSTANTS
    PageSize = 5
    HeaderSize = 2
    MaxBody = 5
    MaxRecords = 3
INVARIANTS
    TypeOK
    Verdict
    FramedSoFar
    PageLayout
    ReaderSound
PROPERTIES
    FramedWithinBound
    ImplementsRecordLog
CHECK_DEADLOCK FALSE
