CONSTANTS
  Worker = {w1, w2}
  w1 = w1
  w2 = w2
  Seg = {1, 2}
  Ttl = 2
  Attempts = 2
  Forced = TRUE
  RetryRejected = TRUE
  DeleteRejected = TRUE
  MaxTime = 3
  MaxLeases = 3
  MaxFailures = 1
  MaxCrashes = 1
SPECIFICATION Spec
INVARIANT AudioFollowsRow
PROPERTIES LeaseExcludes CheckpointGrows
CHECK_DEADLOCK FALSE
