-------------------------- MODULE SmtpTransaction --------------------------
(***************************************************************************)
(* What one SMTP connection promises about mail transactions, whatever its *)
(* lines, chunks and replies: a message is received only in a transaction  *)
(* with a sender and a recipient, the transaction is over as soon as the   *)
(* message begins, and none is carried into TLS.                           *)
(***************************************************************************)
EXTENDS Naturals

VARIABLES
    phase,      \* of the transaction, or "over"
    secure,     \* the connection is encrypted
    count       \* messages accepted

vars == <<phase, secure, count>>

Init == phase = "idle" /\ secure \in BOOLEAN /\ count = 0

Moves(from, to) == phase \in from /\ phase' = to

Open == Moves({"idle"}, "open") /\ UNCHANGED <<secure, count>>

AddRecipient == Moves({"open", "ready"}, "ready") /\ UNCHANGED <<secure, count>>

Reset == Moves({"open", "ready"}, "idle") /\ UNCHANGED <<secure, count>>

Secure ==
    /\ Moves({"idle", "open", "ready"}, "idle")
    /\ ~secure /\ secure' = TRUE
    /\ UNCHANGED count

Receive == Moves({"ready"}, "receiving") /\ UNCHANGED <<secure, count>>

Accept ==
    /\ Moves({"receiving"}, "idle")
    /\ count' = count + 1
    /\ UNCHANGED secure

End == Moves({"idle", "open", "ready", "receiving"}, "over") /\ UNCHANGED <<secure, count>>

Next == Open \/ AddRecipient \/ Reset \/ Secure \/ Receive \/ Accept \/ End

Spec == Init /\ [][Next]_vars
=============================================================================
