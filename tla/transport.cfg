CONSTANTS
    Kinds = {"http", "websocket", "serial"}
    MaxCalls = 2
    MaxHandles = 2
    MaxQueued = 1
    MaxStops = 1
    MaxAttempts = 3
SPECIFICATION Spec
INVARIANTS InStep AtMostOnce ConnectedHasHandle LossIsNoticed
CHECK_DEADLOCK FALSE
