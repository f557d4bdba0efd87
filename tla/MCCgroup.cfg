SPECIFICATION Spec
CONSTANTS
    Threads = {t1, t2}
    Pids = {p1}
    Samples <- MCSamples
    MaxHistory = 2
    MemoryRate = 1
    CpuRate = 1
    MaxSamples = 3
    Nobody = Nobody
SYMMETRY Symmetry
INVARIANTS
    RecordTellsLimits
    RunawayHasCause
