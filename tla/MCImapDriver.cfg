CONSTANTS
    Kinds <- WaitingKinds
    Tags = {"a"}
    MaxCmds = 3
    Capacity = 1
    TlsConfigured = TRUE
    AuthResults = {"ok"}
    OpResults = {"ok"}
SPECIFICATION DriverSpec
INVARIANTS
    QueueConsistent
    HandlersRunAlone
    NothingPlainSurvives
PROPERTIES
    ImplementsProtocol
    OpAnswered
    ClosedEnds
