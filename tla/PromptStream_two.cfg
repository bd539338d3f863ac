\* Two prompts on one session at once, with deletions: an SSE reader and a collector.
CONSTANTS
    p1 = p1
    p2 = p2
    s1 = s1
    Requests = {p1, p2}
    Sessions = {s1}
    SessionOf <- OneSession
    Collectors = {p2}
    Deletable = {s1}
    Serialized = FALSE
    Capacity = 1
    MaxTurns = 1
    MaxEvents = 1
SPECIFICATION Spec
INVARIANTS PairedToolCalls CompleteAnswer
CHECK_DEADLOCK FALSE
