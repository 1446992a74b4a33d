CONSTANTS
    Table = {t1, t2}
    MaxCommits = 2
    MaxCrashes = 2
    Faults = {}
    Flushes = {}
SPECIFICATION Spec
SYMMETRY Symm
CHECK_DEADLOCK FALSE
INVARIANT NeverHalfRecovered
