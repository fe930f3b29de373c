---------------------------- MODULE ImapProtocol ----------------------------
(***************************************************************************)
(* What one IMAP connection promises, without its buffers, its queue and   *)
(* its suspension points: a session that only moves forward through the    *)
(* states of crates/imap/src/server/session.rs, turns to TLS at most once, *)
(* and never changes state under a command in progress.                    *)
(***************************************************************************)

VARIABLES
    phase,      \* the session's State, or "over"
    busy,       \* a command is in progress outside the session
    secure      \* the connection is encrypted

vars == <<phase, busy, secure>>

Phases == {"notauth", "authenticated", "selected", "logout", "over"}

Init == phase = "notauth" /\ busy = FALSE /\ secure \in BOOLEAN

\* The session acts only while it is not waiting for a command.
Idle == ~busy /\ phase \notin {"logout", "over"}

Login ==
    /\ Idle /\ phase = "notauth"
    /\ phase' = "authenticated"
    /\ UNCHANGED <<busy, secure>>

Secure ==
    /\ Idle /\ ~secure
    /\ secure' = TRUE
    /\ UNCHANGED <<phase, busy>>

Execute ==
    /\ Idle
    /\ busy' = TRUE
    /\ UNCHANGED <<phase, secure>>

\* Only the completion of a command selects a mailbox.
Complete ==
    /\ busy /\ phase # "over"
    /\ busy' = FALSE
    /\ \/ phase' = phase
       \/ phase = "authenticated" /\ phase' = "selected"
    /\ UNCHANGED secure

Logout ==
    /\ Idle
    /\ phase' = "logout"
    /\ UNCHANGED <<busy, secure>>

\* The connection may end at any time, a command in progress or just done.
End ==
    /\ phase # "over"
    /\ phase' = "over"
    /\ busy' \in {busy, FALSE}
    /\ UNCHANGED secure

Next == Login \/ Secure \/ Execute \/ Complete \/ Logout \/ End

Spec == Init /\ [][Next]_vars
=============================================================================
