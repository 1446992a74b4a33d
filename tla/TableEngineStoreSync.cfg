CONSTANTS
    MaxWrites = 3
    MaxCrashes = 1
    MaxSegments = 4
    MaxStores = 5
    Faults = {"store_sync"}
    Tears = {}
    Maintenance = {"compact"}
SPECIFICATION Spec
CHECK_DEADLOCK FALSE
INVARIANTS
    AckedServed
