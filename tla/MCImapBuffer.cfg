CONSTANTS
    Kinds <- StarttlsKinds
    Tags = {"a"}
    MaxCmds = 2
    Capacity = 1
    TlsConfigured = TRUE
    AuthResults = {"ok"}
    OpResults = {"ok"}
SPECIFICATION DriverSpec
INVARIANT BufferAssertion
