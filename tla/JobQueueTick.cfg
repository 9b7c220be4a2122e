\* Two jobs, two workers whose batch takes one job or both, crashes, a retry.
SPECIFICATION FairSpec
CONSTANTS
    Jobs = {j1, j2}
    Workers = {w1, w2}
    MaxAttempts = 2
    Batch = 2
    MaxCrashes = 1
    MaxRetries = 1
INVARIANT TypeOK
INVARIANT SoleHolder
PROPERTY SettlesOnce
PROPERTY JobSettles
CHECK_DEADLOCK FALSE
