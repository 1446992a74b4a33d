CONSTANTS
    Client = {c1}
    Key = {k1, k2}
    Name = {s}
    Isolation = {"ReadCommitted"}
    DdlInBlock = FALSE
    MaxTime = 4
    MaxWrites = 1
    MaxSavepoints = 0
SPECIFICATION Spec
SYMMETRY Symm
INVARIANT RepinForgivesNothing
