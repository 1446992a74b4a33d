CONSTANTS
    Task = {a, b}
    SegmentSize = 2
    MaxRecords = 4
    MaxCrashes = 1
    Faults = {"append", "tear", "sync", "create", "fence"}
    CrashKinds = {"process", "power"}
SPECIFICATION FairSpec
CHECK_DEADLOCK FALSE
INVARIANTS
    TypeOK
    AckedSynced
    NoStrandedWaiter
    AckedReplayed
PROPERTY CommitsResolve
