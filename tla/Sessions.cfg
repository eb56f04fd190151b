SPECIFICATION FairSpec
CONSTANTS
    Browser = {"phone", "desk"}
    Idle = 2
    Absolute = 3
    Lease = 2
    Throttle = 0
    TokenLife = 1
    MaxLag = 1
    MaxLogins = 2
    MaxInFlight = 2
INVARIANTS
    SessionsTyped
    IdleFollowsActivity
PROPERTIES
    NameComesFree
    OnlyTheHolderWrites
    EndedForCause
    AbsoluteIsFinal
