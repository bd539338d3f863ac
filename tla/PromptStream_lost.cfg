\* Two prompts on one session at once: a Save drops what the other stored.
CONSTANTS
    p1 = p1
    p2 = p2
    s1 = s1
    Requests = {p1, p2}
    Sessions = {s1}
    SessionOf <- OneSession
    Collectors = {}
    Deletable = {}
    Serialized = FALSE
    Capacity = 2
    MaxTurns = 1
    MaxEvents = 1
SPECIFICATION Spec
PROPERTY AppendOnly
CHECK_DEADLOCK FALSE
