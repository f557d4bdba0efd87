SPECIFICATION Spec
CONSTANTS
    Numeral <- MCNumeral
    Truthy = {}
    AnyAddress = {}
    TmpDir <- MCTmpDir
    Threads = {t1, t2}
    Files <- MCFiles
    NoFile = NoFile
    Extra <- MCExtra
    Calls <- MCCalls
    AuditLog = TRUE
    MaxEdits = 1
    MaxChanges = 2
    MaxAnswers = 2
INVARIANTS
    TrailIsComplete
    OpenOnlyWithoutFile
PROPERTIES
    ImplementsPolicy
    CallsReturn
CHECK_DEADLOCK FALSE
