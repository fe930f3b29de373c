------------------------------- MODULE MCImap -------------------------------
(* The IMAP session and its driver on small instances. *)
EXTENDS ImapDriver

\* Every handler that waits, and operations: one that any state allows, one
\* whose answer needs a state and changes it, one that panics.
WaitingKinds == {"list", "examine", "fetch", "login", "sasl", "starttls", "logout"}

\* The two assertions of the code that a client can reach.
AssertKinds == {"login", "examine", "noop"}
StarttlsKinds == {"starttls", "noop"}
=============================================================================
