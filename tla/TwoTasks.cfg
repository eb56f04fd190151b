SPECIFICATION Spec
CONSTANTS
    t1 = t1
    t2 = t2
    ann = ann
    bob = bob
    Task <- MCTask
    User <- MCUser
    NoUser = NoUser
    MaxVersions = 3
    MaxRounds = 1
    MaxActions = 1
    MaxSaves = 0
    MaxCuts = 0
    Backfilled = TRUE
SYMMETRY Symmetry
INVARIANTS
    OneTaskPerUser
    BarredStaysOut
CHECK_DEADLOCK FALSE
