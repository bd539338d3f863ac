\* Two sessions, of two repositories, one, or none, and two DELETE requests.
SPECIFICATION LiveSpec
CONSTANTS
    Sessions = {s1, s2}
    Deletions = {d1, d2}
    Repos = {r1, r2}
    Nobody = Nobody
INVARIANTS GaugeExact NoOrphanWorktree OnlyCutClonesAreUnsound ReadyIsWhole
PROPERTIES ImplementsLifecycle EveryHandlerEnds
CHECK_DEADLOCK FALSE
