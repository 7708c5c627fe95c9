SPECIFICATION Spec
CONSTANTS
    None = None
    Schemes = {"hawk512", "mayo1", "snova2454"}
    Byte = 8
    Tag = 3
    MaxLenBytes = 2
    PrivSize = 1
    PubSize = 2
    SigSize = 1
    Pairs <- MCPairs
    Ca <- MCCa
    Transcript <- MCTranscript
    KeyFiles <- MCKeyFiles
    PubKeys <- MCPubKeys
    Signatures <- MCSignatures
INVARIANTS
    PeerAuthenticated
    KeyFileExact
    OwnSignature
    NothingLeft
