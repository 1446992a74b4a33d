CONSTANTS
    Task = {a}
    SegmentSize = 2
    MaxRecords = 2
    MaxCrashes = 2
    Faults = {}
    CrashKinds = {"power"}
SPECIFICATION Spec
CHECK_DEADLOCK FALSE
INVARIANTS
    AckedReplayed
