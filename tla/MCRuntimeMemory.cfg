CONSTANTS
    HeapCapacity = 3
    Sizes = {0, 1, 2}
    Stages = {"tcp", "tls_handshake"}
    StackWords = 5
    PaintGuard = 1
    LimitGuard = 1
    Depths = {0, 3, 5}
    MaxCalls = 2
SPECIFICATION MemorySpec
CONSTRAINT HeapOrStack
INVARIANT PeakIsMaximum
INVARIANT FirstFailureKept
INVARIANT FreeColumnsConsistent
INVARIANT HighWaterIsDeepest
