SPECIFICATION ReaderSpec
CONSTANTS
    Byte <- MCByte
    NL <- MCNL
    Inputs <- MCInputs
    MaxRecord = 3
    BufferSize = 3
    MaxInput = 6
INVARIANTS
    TypeOK
    PartialLine
    WithinLimit
PROPERTIES
    ImplementsSplitter
    StreamEnds
CHECK_DEADLOCK FALSE
