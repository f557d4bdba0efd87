SPECIFICATION FilterSpec
CONSTANTS
    Lines <- MCLines
    Options <- MCOptions
    MaxLines = 5
    Window = 3
    Thresholds <- MCThresholds
INVARIANTS
    OutputInOrder
    ExitKeepsOutput
    HandshakeInOrder
    LengthNeedsSamples
    WindowIsRecent
CHECK_DEADLOCK FALSE
