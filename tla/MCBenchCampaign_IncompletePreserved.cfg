CONSTANTS
    Stages = {"tls_handshake"}
    Errors = {"timeout", "transport"}
    Iters = 2
    Warmup = 2
    Cuts = {5, 13, 17}
    WifiAttempts = 3
    MaxResets = 1
SPECIFICATION Spec
CHECK_DEADLOCK FALSE
INVARIANT IncompletePreserved
