\* One call of up to three deltas, usages and tool calls over a channel of two.
SPECIFICATION Spec
CONSTANTS
    Prompt = p
    Capacity = 2
    MaxEvents = 3
INVARIANTS TypeOK DeliveredInOrder NilMeansComplete
PROPERTIES CallReturns HandlerFollows
CHECK_DEADLOCK FALSE
