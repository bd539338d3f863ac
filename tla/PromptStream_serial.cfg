\* Two prompts on one session, each client waiting for the stream before its
\* own: an SSE reader and a collector, under fair scheduling.
CONSTANTS
    p1 = p1
    p2 = p2
    s1 = s1
    Requests = {p1, p2}
    Sessions = {s1}
    SessionOf <- OneSession
    Collectors = {p2}
    Deletable = {}
    Serialized = TRUE
    Capacity = 1
    MaxTurns = 2
    MaxEvents = 1
SPECIFICATION FairSpec
INVARIANTS TypeOK CancelEndsTurns
PROPERTIES FollowsProtocol AppendOnly StreamEndsOrIsAbandoned CollectorReturns
CHECK_DEADLOCK FALSE
