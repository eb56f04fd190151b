SPECIFICATION Spec
CONSTANTS
    t1 = t1
    ann = ann
    bob = bob
    eve = eve
    Task <- MCTask
    User <- MCUser
    NoUser = NoUser
    MaxVersions = 5
    MaxRounds = 2
    MaxActions = 2
    MaxSaves = 0
    MaxCuts = 0
    Backfilled = TRUE
SYMMETRY Symmetry
INVARIANTS
    CorpusInv
    
    FinalIsDecided
    AuditAgrees
    OffboardedOutOfCorpus
CHECK_DEADLOCK FALSE
