CONSTANTS
    HsScript <- TwoFlights
    ConnErrs = {"ok"}
    RingCap = 2
    MaxUnits = 3
    PollLimit = 1
SPECIFICATION Spec
INVARIANT NoNullPcbCall
