CONSTANTS
    Table = {t1, t2}
    MaxCommits = 3
    MaxCrashes = 2
    Faults = {"append", "fsync", "record"}
    Flushes = {"statement", "backup"}
SPECIFICATION Spec
SYMMETRY Symm
CHECK_DEADLOCK FALSE
INVARIANTS
    TypeOK
    AckedRecovered
    CommittedIdsUnique
    AllOrNone
    LiveIsRecovered
