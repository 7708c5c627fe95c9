CONSTANTS
    HsScript <- TwoFlights
    ConnErrs = {"ok", "error"}
    RingCap = 2
    MaxUnits = 3
    PollLimit = 1
SPECIFICATION Spec
INVARIANT CallbacksTargetLive
INVARIANT PcbNotDangling
INVARIANT NothingLeaks
INVARIANT EndOfStreamIsFinal
INVARIANT IoTimedOutIsLastRead
INVARIANT HandshakeCountsExact
PROPERTY FailureStageMatches
PROPERTY RefinesAttempt
PROPERTY CallsReturn
