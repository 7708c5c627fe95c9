CONSTANTS
    Reload = 2
    MaxTime = 8
    Iters = 3
    Warmup = 1
    MaxIters = 2
    Programs = {"sign_verify", "verify_only"}
    Adapters = {"pqclean", "mayo", "hawk", "snova", "ecdsa", "rsa", "rsa_pss"}
    SigMax = 2
    MsgLen = 1
    SigBuf = 2
SPECIFICATION Spec
CHECK_DEADLOCK FALSE
INVARIANT ReadingIsExact
INVARIANT ResultsAreOwn
INVARIANT SignatureIsValid
