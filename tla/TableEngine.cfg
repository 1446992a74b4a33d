CONSTANTS
    MaxWrites = 3
    MaxCrashes = 1
    MaxSegments = 3
    MaxStores = 5
    Faults = {"append", "tear", "sync", "segment", "store", "store_tear"}
    Tears = {"wal", "manifest"}
    Maintenance = {"flush", "compact", "checkpoint"}
SPECIFICATION Spec
CHECK_DEADLOCK FALSE
INVARIANTS
    TypeOK
    TiersDisjoint
    AckedServed
    SealedIsFiles
PROPERTY ImplementsDurableTable
