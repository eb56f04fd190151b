SPECIFICATION Spec
CONSTANTS
    Importer = {i, j}
    Batch = {b, c}
    Video = {v}
    Path = {p, q}
    Key = {k}
    Sound = {s, t}
    Note = {x, y}
    None = None
    Lines = 2
    ExplicitKeys = TRUE
    MaxReruns = 1
    MaxCrashes = 1
    MaxScans = 1
CHECK_DEADLOCK FALSE
SYMMETRY Interchangeable
INVARIANTS EvidenceInPlace CompletedMeansRecorded
