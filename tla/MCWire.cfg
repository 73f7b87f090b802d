SPECIFICATION MCSpec
CONSTANTS
    MaxOutput = 2
    MaxInput = 2
    MaxChunksInAll = 2
CHECK_DEADLOCK FALSE
INVARIANTS RoundTrip CutShort CloneIndependent NoGaps
PROPERTY BothEnd
