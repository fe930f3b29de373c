CONSTANTS
    Kinds <- AllKinds
    Tags = {"a"}
    MaxCmds = 2
    Capacity = 1
    TlsConfigured = TRUE
    AuthResults = {"ok", "no"}
    OpResults = {"ok", "no"}
SPECIFICATION Spec
INVARIANTS
    OneInProgress
    Accounted
PROPERTIES
    AnsweredOnce
    AnsweredInOrder
    LineConsumed
