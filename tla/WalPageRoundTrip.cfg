SPECIFICATION Spec
CONSTANTS
    PageSize = 5
    HeaderSize = 2
    MaxBody = 4
    MaxRecords = 2
INVARIANT
    RoundTrip
CHECK_DEADLOCK FALSE
