CONSTANTS
    ConnErrs = {"ok", "error"}
    RingCap = 2
    MaxUnits = 4
    MaxWant = 3
    PollLimit = 1
SPECIFICATION Spec
INVARIANT NothingLeaks
INVARIANT ReadLosesNothing
INVARIANT ShortReadIsExplained
INVARIANT DnsFailureIsThisLookup
PROPERTY RefinesAttempt
PROPERTY CallsReturn
