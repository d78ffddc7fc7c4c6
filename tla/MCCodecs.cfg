SPECIFICATION Spec
CONSTANTS
    ByteBits = 4
    WordBits = 16
    DodMid = 8
    DodLarge = 10
    LeadBits = 3
    SigBits = 4
    kMaxSamples = 3
    kMaxBytes = 25
    MaxGrowth = 12
    Inputs <- SampleInputs
    SeriesInputs <- LogInputs
    MaxItems = 4
CHECK_DEADLOCK FALSE
INVARIANTS
    TypeOK
    ChunksHoldSamples
    ChunkWithinBytes
    TornChunkYieldsPrefix
    SamplesRecordExact
    SeriesRecordExact
