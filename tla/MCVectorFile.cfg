SPECIFICATION VectorSpec
CONSTANTS
    LineWords <- MCLineWords
    MaxRecords = 3
    OldVectors = 2
INVARIANTS
    DecodesAPrefix
    SuccessIsComplete
    RecordedPhaseIsEarned
PROPERTIES
    CleanEofIsComplete
CHECK_DEADLOCK FALSE
