CONSTANTS
    Kinds <- AssertKinds
    Tags = {"a"}
    MaxCmds = 3
    Capacity = 1
    TlsConfigured = TRUE
    AuthResults = {"ok"}
    OpResults = {"ok"}
SPECIFICATION DriverSpec
INVARIANT NeverUnreachable
