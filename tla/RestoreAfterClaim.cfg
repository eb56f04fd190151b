SPECIFICATION AuditSpec
CONSTANTS
    t1 = t1
    ann = ann
    bob = bob
    Task <- MCTask
    User <- MCUser
    NoUser = NoUser
    MaxVersions = 3
    MaxRounds = 0
    MaxActions = 1
    MaxSaves = 0
    MaxCuts = 0
    Backfilled = TRUE
SYMMETRY Symmetry
PROPERTIES
    RestoredUnclaimed
CHECK_DEADLOCK FALSE
