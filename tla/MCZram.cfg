SPECIFICATION Spec
CONSTANTS
    Threads = {t1, t2}
    Rss <- MCRss
    Devices <- MCDevices
    MaxConcurrent = 2
    MaxSize = 4096
    Retention = 1
    MaxNow = 3
    MaxTaken = 4
SYMMETRY Symmetry
INVARIANTS
    OvershootBounded
    DevicesInTurn
    ListedUntilExpired
CHECK_DEADLOCK FALSE
