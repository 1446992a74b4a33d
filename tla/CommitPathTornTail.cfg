CONSTANTS
    Table = {t1}
    MaxCommits = 2
    MaxCrashes = 1
    Faults = {}
    Flushes = {}
SPECIFICATION Spec
CHECK_DEADLOCK FALSE
INVARIANTS
    EveryAckedRecovered
