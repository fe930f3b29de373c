CONSTANTS
    imap = imap
    smtp = smtp
    p1 = p1
    p2 = p2
    t1 = t1
    t2 = t2
    q1 = q1
    u1 = u1
    Services <- MCServices
    PlainClients <- MCPlain
    TlsClients <- MCTls
SPECIFICATION Spec
INVARIANTS
    WaitsSomewhere
    OnePerPlain
PROPERTIES
    PlainServed
    HelloAnswered
    
