SPECIFICATION Spec
CONSTANTS
    t1 = t1
    ann = ann
    bob = bob
    eve = eve
    Task <- MCTask
    User <- MCUser
    NoUser = NoUser
    MaxVersions = 4
    MaxRounds = 2
    MaxActions = 1
    MaxSaves = 1
    MaxCuts = 1
    Backfilled = TRUE
SYMMETRY Symmetry
INVARIANTS
    TypeOK
    CorpusPointer
    CutsAgree
    WorkAgrees
    RoundAgrees
    EvidenceMatches
PROPERTIES
    HistoryIsImmutable
    PooledWorkKept
    CreditIsEarned
CHECK_DEADLOCK FALSE
