SPECIFICATION Spec
CONSTANTS
    Pairs <- MCPairs
    MaxText = 5
    MaxWords = 4
    MaxMs = 4
    MaxExcluded = 3
    Threshold = 3333
    MaxCells = 12
CHECK_DEADLOCK FALSE
INVARIANTS WordsAsDefined VerdictExact ExcludedTimeExact
