CONSTANTS
    Name = {a, b}
    Key = {k}
    Index = {i}
    User = {u}
    Faults = {"append", "tear", "sync", "close"}
    MaxTime = 6
    MaxDdl = 4
    MaxNamespaces = 2
    MaxMishaps = 2
SPECIFICATION Spec
SYMMETRY Symm
CHECK_DEADLOCK FALSE
INVARIANTS
    TypeOK
    AckedReplayed
    RestartChangesOnly
    NamespacesDistinct
    RecreatedStartsEmpty
    IndexCoversTable
PROPERTIES
    HistoryStable
