CONSTANTS
    Iters = 3
    Warmup = 1
    Cooldown = 3
    Second = 4
    Window = 4
    Durations = {1, 8}
    SynDelays = {0, 12}
    MaxSettings = 1
SPECIFICATION Spec
CHECK_DEADLOCK FALSE
INVARIANT OwnStream
INVARIANT SummariesAgree
