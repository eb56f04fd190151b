SPECIFICATION Spec
CONSTANTS
    Annotator = {a}
    None = None
    Idle = 2
    Absolute = 2
    MaxTime = 2
    MaxSessions = 2
    MaxForms = 2
    MaxRequests = 2
    MaxVersion = 2
CHECK_DEADLOCK FALSE
INVARIANT WritesAsShown
PROPERTIES AnswersFitForms SignedOutStaysOut
