SPECIFICATION Spec
CONSTANTS
    LabelSets <- Labelled
    Names = {"job", "env"}
    LabelValues = {"web", "api"}
    Selectors <- Asked
    MaxTime = 2
    ChunkCap = 2
    MaxAppends = 3
    MaxBlocks = 3
    MaxInputs = 2
CONSTRAINT FewBroken
INVARIANTS
    TypeOK
    OpenableIsComplete
    FilesInOrder
    SelectAgrees
    LastInputWins
    SourcesHold
    RangeNeverHides
    MergesKeepAll
PROPERTY
    QueryNeverShrinks
CHECK_DEADLOCK FALSE
