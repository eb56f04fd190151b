SPECIFICATION Spec
CONSTANTS
    Audio = {r, s}
    Name = {a}
    Nobody = Nobody
    None = None
    MaxFiles = 2
    MaxEdits = 1
    MaxCrashes = 1
    MaxRevision = 1
CHECK_DEADLOCK FALSE
INVARIANT RowsTellTheFiles
PROPERTY WorkKept
