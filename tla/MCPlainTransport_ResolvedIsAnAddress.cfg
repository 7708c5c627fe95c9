CONSTANTS
    ConnErrs = {"ok"}
    RingCap = 2
    MaxUnits = 3
    MaxWant = 3
    PollLimit = 1
SPECIFICATION Spec
INVARIANT ResolvedIsAnAddress
