CONSTANTS
    Kinds <- MailKinds
    Opening <- MailOpening
    MaxLines = 7
    MaxAhead = 2
    TlsConfigured = TRUE
SPECIFICATION Spec
INVARIANTS
    PlainForgotten
    AcceptedAskedFor
    UsedOnce
PROPERTY ImplementsTransaction
