CONSTANTS
    Table = {t1, t2}
    MaxCommits = 1
    MaxCrashes = 1
    Faults = {"append"}
    Flushes = {"statement"}
SPECIFICATION Spec
SYMMETRY Symm
CHECK_DEADLOCK FALSE
INVARIANT NeverHalfRecovered
