CONSTANTS
    Key = {k1, k2}
    Open = 4
    MaxTxn = 3
SPECIFICATION Spec
SYMMETRY Symm
INVARIANTS
    TypeOK
    FirstCommitterWins
    CommitOrder
    TxnIdsUnique
    ChainIntact
    AckedDurable
PROPERTY SnapshotStable
