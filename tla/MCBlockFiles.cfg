SPECIFICATION Spec
CONSTANTS
    ByteBits = 4
    WordBits = 16
    segment_size = 40
    k_symbol_sparse_stride = 2
    SymbolSize <- Sizes
    SeriesInputs <- Inputs
    ShortReads = {0, 5, 8, 25}
    MaxTrouble = 2
CHECK_DEADLOCK FALSE
INVARIANTS
    NeverRefused
    OpenableReadsBack
    MetaMatchesFiles
    SegmentsWithinSize
    ReadIsExact
