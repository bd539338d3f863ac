\* One session, two prompts at a time, a DELETE, the collector, two restarts.
SPECIFICATION LiveSpec
CONSTANTS
    Sessions = {s1}
    Prompts = {p1, p2}
    Deletions = {d1}
    TTL = 2
    IdleTimeout = 1
    Collected = TRUE
    DiskFails = TRUE
    MaxTime = 4
    MaxRestarts = 2
INVARIANT TypeOK
PROPERTIES CollectsUnused ExpiredIsCollected
