\* A first reply of up to three blocks of up to two pieces, a second of one, and
\* one call of somebody else in the same directory.
SPECIFICATION RunSpec
CONSTANTS
    MaxBlocks = 3
    MaxPieces = 2
    LaterBlocks = 1
    LaterPieces = 1
    Replies <- FirstReplies
    LaterReplies <- NextReplies
    Workers = {run, other}
    Run = run
    CallIds <- AllIds
    OtherId <- Others
    Original <- Nothing
    Mode = "workspace-write"
    MaxTurns = 2
INVARIANTS RunTypeOK OnlyWholeCalls StopMeansWhole RequestsPaired NothingUnsaved EditsSeeWhatWasThere
PROPERTY OnlyAllowedCallsChange
CHECK_DEADLOCK FALSE
