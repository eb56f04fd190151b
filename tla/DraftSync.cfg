SPECIFICATION Spec
CONSTANTS
    Seg = {"a", "b"}
    Submits = TRUE
    MaxEdits = 2
    MaxOps = 2
    MaxFaults = 1
    MaxOpens = 2
    MaxOnline = 1
    MaxLeases = 2
CHECK_DEADLOCK FALSE
INVARIANTS
    
    NoSecondOpinion
PROPERTIES
    EditsArrive
    
