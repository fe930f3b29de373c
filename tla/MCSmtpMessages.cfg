CONSTANTS
    Kinds <- AllKinds
    Opening <- MessageOpening
    MaxLines = 7
    MaxAhead = 1
    TlsConfigured = TRUE
SPECIFICATION Spec
INVARIANTS
    TypeOK
    ChunksWhole
    CutIsLast
    NothingAfterQuit
PROPERTY TaskEnds
