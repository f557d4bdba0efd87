SPECIFICATION Spec
CONSTANTS
    Threads = {t1, t2, t3}
    Requests <- MCRequests
    MaxAttempts = 1
    AutoRollback = TRUE
    MaxTriggers = 2
    Nobody = Nobody
INVARIANTS
    OneRollbackAtATime
    RecordedBeforeExecuted
    StuckOnlyByStats
PROPERTIES
    TriggerIsAnswered
CHECK_DEADLOCK FALSE
