CONSTANTS
    Kinds <- ChunkKinds
    Opening <- MessageOpening
    MaxLines = 5
    MaxAhead = 1
    TlsConfigured = FALSE
SPECIFICATION Spec
INVARIANT StreamReturned
