CONSTANTS
    Client = {c1, c2}
    Key = {k1}
    Name = {s, t}
    Isolation = {"RepeatableRead", "ReadCommitted"}
    DdlInBlock = TRUE
    MaxTime = 3
    MaxWrites = 2
    MaxSavepoints = 2
SPECIFICATION Spec
SYMMETRY Symm
INVARIANTS
    TypeOK
    NoLostUpdate
    LeasesExact
    IndexCoversPins
    NothingBelowFloor
    MarksNest
PROPERTY SnapshotRepeatable
